---- MODULE Spec2Model ----
(***************************************************************************)
(* SARE (Self-Evolving Adaptive Routing Engine) of the Isha framework:     *)
(* traffic analyzer, adaptive optimizer, code path optimizer and facade.   *)
(*                                                                         *)
(* Conventions.  Time is the reading of time.monotonic() in whole seconds. *)
(* Latencies are whole centiseconds (1 = 10 ms).  Strings that the code    *)
(* builds by formatting are sequences of one-character strings, with an    *)
(* HTTP method as a single token.  Python dicts and OrderedDicts are       *)
(* sequences in insertion order.  None is the record None.                 *)
(***************************************************************************)
EXTENDS Integers, Sequences, FiniteSets, TLC

VARIABLES
    now,                \* time.monotonic()
    \* ---- ResponseCache
    cache,              \* _cache: OrderedDict key -> (data, expires_at), front first
    hits,               \* _hits
    misses,             \* _misses
    \* ---- CodePathOptimizer
    memoized_routes,    \* _memoized_routes
    preencoded_routes,  \* _preencoded_routes
    route_ttls,         \* _route_ttls: route_id -> ttl
    cache_bypasses,     \* _cache_bypasses
    cp_total_requests,  \* CodePathOptimizer._total_requests
    \* ---- TrafficAnalyzer and AdaptiveOptimizer, a record of the fields each
    analyzer,
    optimizer,
    \* ---- observation of the most recent call
    last,               \* the most recent call: its arguments and what it returned
    recency,            \* keys in order of their last access, most recent last
    calls,              \* the record_request calls made since construction or reset
    \* ---- the host's threads
    threads,            \* per thread: the call it is in, its position in it and its locals
    locks,              \* the thread holding TrafficAnalyzer._lock, AdaptiveOptimizer._lock; 0 if free
    \* ---- construction
    config,             \* the latest constructor call: its arguments and what it produced
    \* ---- JSONPreEncoder and LatencyPredictor
    encoder,            \* _templates and _structure_fingerprints, route_id -> value
    predictor           \* the per-route predictors, route_id -> their state

cacheVars == <<cache, hits, misses>>
codepathVars == <<memoized_routes, preencoded_routes, route_ttls, cache_bypasses, cp_total_requests>>
engineVars == <<analyzer, optimizer, calls>>
sideVars == <<encoder, predictor>>
hostVars == <<threads, locks, config, encoder, predictor>>
vars == <<now, cache, hits, misses, memoized_routes, preencoded_routes, route_ttls,
          cache_bypasses, cp_total_requests, analyzer, optimizer, last, recency, calls,
          threads, locks, config, encoder, predictor>>

----------------------------------------------------------------------------
(* Bounds of the model *)

MaxTime == 1        \* the clock stops advancing here
MaxCount == 2       \* cap of the hit, miss and bypass counters
MaxSize == 2        \* ResponseCache.max_size of the modelled instance
DefaultTtl == 1     \* ResponseCache.default_ttl of the modelled instance
MaxRequests == 2    \* cap of the number of record_request calls between two resets
MaxMiddlewareCalls == 2     \* cap of the number of record_middleware calls
MaxCycles == 3      \* cap of the number of run_optimization_cycle calls made directly
MaxFacadeCalls == 3 \* cap of the number of before_request and after_request calls

None == [none |-> TRUE]

----------------------------------------------------------------------------
(* Strings *)

PathX == <<"/", "x">>
PathZ == <<"/", "z">>
QueryEmpty == <<>>
QueryA == <<"a">>

Paths == {PathX, PathZ}
Queries == {QueryEmpty, QueryA}
CacheMethods == {"GET", "HEAD", "POST"}

\* f"{method} {path}"
RouteId(method, path) == <<method, " ">> \o path

RouteIds == {RouteId(m, p) : m \in {"GET", "POST"}, p \in Paths}

\* hashlib.sha256(raw.encode()).hexdigest()[:32]: the digest is modelled by
\* its preimage behind the marker "#", i.e. as collision free.
Sha256Hex32(raw) == <<"#">> \o raw

\* CodePathOptimizer.build_cache_key
build_cache_key_without_query(method, path, query_string) ==
    Sha256Hex32(<<method, "|">> \o path)
build_cache_key(method, path, query_string) ==
    Sha256Hex32(<<method, "|">> \o path \o <<"|">> \o query_string)

\* f"{route_id}:{key}"
EntryKey(route_id, key) == route_id \o <<":">> \o key

Payloads == {[body |-> "b1", status_code |-> 200], [body |-> "b2", status_code |-> 200]}
Ttls == {0}

----------------------------------------------------------------------------
(* ResponseCache *)

\* An entry of _cache is key -> (data, expires_at); args is not program state:
\* it names the request (route_id, method, path, query_string) the entry was
\* stored for, <<>> for a direct put.
CacheEntry(key, data, expires_at, args) ==
    [key |-> key, data |-> data, expires_at |-> expires_at, args |-> args]

Has(c, key) == \E i \in 1..Len(c) : c[i].key = key

Entry(c, key) == c[CHOOSE i \in 1..Len(c) : c[i].key = key]

Remove(c, key) == SelectSeq(c, LAMBDA e : e.key # key)

KeysOf(c) == {c[i].key : i \in 1..Len(c)}

\* OrderedDict.move_to_end(key)
MoveToEndSkipped(c, key) == c
MoveToEnd(c, key) == Remove(c, key) \o <<Entry(c, key)>>

\* OrderedDict.__setitem__: an existing key keeps its position
SetItem(c, key, data, expires_at, args) ==
    IF Has(c, key)
    THEN [i \in 1..Len(c) |->
            IF c[i].key = key THEN CacheEntry(key, data, expires_at, args) ELSE c[i]]
    ELSE Append(c, CacheEntry(key, data, expires_at, args))

\* time.monotonic() > expires_at
IsExpiredWithGrace(t, expires_at) == t > expires_at + 1
IsExpired(t, expires_at) == t > expires_at

\* while len(self._cache) > self.max_size: self._cache.popitem(last=False)
RECURSIVE EvictOver(_, _)
EvictOver(c, max_size) ==
    IF Len(c) > max_size THEN EvictOver(Tail(c), max_size) ELSE c

\* ResponseCache.get: the cache afterwards, the value returned and the
\* increments of _hits and _misses
CacheGet(c, key, t) ==
    IF ~Has(c, key)
    THEN [cache |-> c, ret |-> None, hit |-> 0, miss |-> 1]
    ELSE IF IsExpired(t, Entry(c, key).expires_at)
    THEN [cache |-> Remove(c, key), ret |-> None, hit |-> 0, miss |-> 1]
    ELSE [cache |-> MoveToEnd(c, key), ret |-> Entry(c, key).data, hit |-> 1, miss |-> 0]

\* ResponseCache.put
CachePut(c, key, data, ttl, t, max_size, args) ==
    LET expires_at == t + ttl
        moved == IF Has(c, key) THEN MoveToEnd(c, key) ELSE c
    IN  EvictOver(SetItem(moved, key, data, expires_at, args), max_size)

\* ResponseCache.evict_expired
CacheEvictExpired(c, t) == SelectSeq(c, LAMBDA e : ~IsExpired(t, e.expires_at))

----------------------------------------------------------------------------
(* CodePathOptimizer *)

\* self._route_ttls[route_id] = ttl
DictSet(d, k, v) == [x \in DOMAIN d \cup {k} |-> IF x = k THEN v ELSE d[x]]

\* self._route_ttls.pop(route_id, None)
DictPop(d, k) == [x \in DOMAIN d \ {k} |-> d[x]]

\* self._route_ttls.get(route_id, default)
DictGet(d, k, default) == IF k \in DOMAIN d THEN d[k] ELSE default

\* ResponseCache.invalidate_pattern: str.startswith
StartsWith(s, prefix) == Len(prefix) <= Len(s) /\ SubSeq(s, 1, Len(prefix)) = prefix

CacheInvalidatePattern(c, pattern) == SelectSeq(c, LAMBDA e : ~StartsWith(e.key, pattern))

\* CodePathOptimizer.try_cache_hit: the cache afterwards, the value returned
\* and the increments of the counters
TryCacheHit(c, memo, route_id, method, path, query_string, t) ==
    IF route_id \notin memo \/ method \notin {"GET", "HEAD"}
    THEN [cache |-> c, ret |-> None, hit |-> 0, miss |-> 0, bypass |-> 1]
    ELSE LET r == CacheGet(c, EntryKey(route_id, build_cache_key(method, path, query_string)), t)
         IN  [cache |-> r.cache, ret |-> r.ret, hit |-> r.hit, miss |-> r.miss, bypass |-> 0]

\* CodePathOptimizer.store_response: the cache afterwards
StoreResponseUnchecked(c, memo, ttls, route_id, method, path, query_string, response_data, t, default_ttl, max_size) ==
    CachePut(c, EntryKey(route_id, build_cache_key(method, path, query_string)),
             response_data, DictGet(ttls, route_id, default_ttl), t, max_size,
             <<route_id, method, path, query_string>>)
StoreResponse(c, memo, ttls, route_id, method, path, query_string, response_data, t, default_ttl, max_size) ==
    IF route_id \notin memo \/ method \notin {"GET", "HEAD"}
    THEN c
    ELSE CachePut(c, EntryKey(route_id, build_cache_key(method, path, query_string)),
                  response_data, DictGet(ttls, route_id, default_ttl), t, max_size,
                  <<route_id, method, path, query_string>>)


----------------------------------------------------------------------------
(* Arithmetic.  A float is the exact rational [n, d] in lowest terms, d > 0; *)
(* the rounding of floating point arithmetic is not modelled.                *)

RECURSIVE Gcd(_, _)
Gcd(a, b) == IF b = 0 THEN a ELSE Gcd(b, a % b)

Abs(x) == IF x < 0 THEN -x ELSE x

Rat(n, d) ==
    LET g == Gcd(Abs(n), d) IN [n |-> n \div g, d |-> d \div g]

Zero == [n |-> 0, d |-> 1]
One == [n |-> 1, d |-> 1]

RatAdd(x, y) ==
    LET g == Gcd(x.d, y.d) IN
    Rat(x.n * (y.d \div g) + y.n * (x.d \div g), (x.d \div g) * y.d)

RatNeg(x) == [n |-> -x.n, d |-> x.d]
RatSub(x, y) == RatAdd(x, RatNeg(y))

RatMul(x, y) ==
    LET g1 == Gcd(Abs(x.n), y.d)
        g2 == Gcd(Abs(y.n), x.d)
    IN  Rat((x.n \div g1) * (y.n \div g2), (x.d \div g2) * (y.d \div g1))

\* x < y for non-negative x and y, by comparing integer parts and then the
\* reciprocals of the fractional parts
RECURSIVE FracLess(_, _, _, _)
FracLess(a, b, c, d) ==
    IF a \div b # c \div d THEN a \div b < c \div d
    ELSE IF c % d = 0 THEN FALSE
    ELSE IF a % b = 0 THEN TRUE
    ELSE FracLess(d, c % d, b, a % b)

RatLess(x, y) ==
    IF x.n < 0 /\ y.n >= 0 THEN TRUE
    ELSE IF x.n >= 0 /\ y.n < 0 THEN FALSE
    ELSE IF x.n < 0 THEN FracLess(-y.n, y.d, -x.n, x.d)
    ELSE FracLess(x.n, x.d, y.n, y.d)

RatMin(x, y) == IF RatLess(y, x) THEN y ELSE x
RatMax(x, y) == IF RatLess(x, y) THEN y ELSE x

RECURSIVE SumSeq(_)
SumSeq(s) == IF s = <<>> THEN 0 ELSE Head(s) + SumSeq(Tail(s))

\* sorted(seq) of integers: the k-th element of the result is the value v of
\* seq with fewer than k elements below v and at least k elements up to v
Sorted(s) ==
    [k \in 1..Len(s) |->
        CHOOSE v \in {s[i] : i \in 1..Len(s)} :
            /\ Cardinality({i \in 1..Len(s) : s[i] < v}) < k
            /\ k <= Cardinality({i \in 1..Len(s) : s[i] <= v})]

\* deque(maxlen=maxlen).append(x)
DequeAppend(q, x, maxlen) ==
    IF maxlen = 0 THEN <<>>
    ELSE IF Len(q) >= maxlen THEN Append(Tail(q), x)
    ELSE Append(q, x)

\* str.upper() on the method tokens
Upper(method) ==
    CASE method = "get" -> "GET"
      [] method = "post" -> "POST"
      [] method = "head" -> "HEAD"
      [] OTHER -> method

----------------------------------------------------------------------------
(* TrafficAnalyzer *)

WindowSize == 2             \* TrafficAnalyzer.window_size of the modelled instance
SnapshotInterval == 1       \* TrafficAnalyzer.snapshot_interval of the modelled instance
MiddlewareWindow == 500     \* MiddlewareMetrics.latencies maxlen
GlobalWindow == 10000       \* TrafficAnalyzer._global_timestamps maxlen
HistorySize == 360          \* TrafficAnalyzer._history maxlen
RpsWindow == 60             \* seconds of the trailing window of the request rates

\* a latency that is not a number
Malformed == -1

\* RouteMetrics(path, method, ...), as record_request constructs it
NewRouteMetrics(method, path) ==
    [method |-> method, path |-> path,
     latencies |-> <<>>, timestamps |-> <<>>,
     total_requests |-> 0, total_errors |-> 0, total_5xx |-> 0,
     avg_latency |-> Zero, p50_latency |-> 0, p95_latency |-> 0, p99_latency |-> 0,
     requests_per_second |-> Zero, error_rate |-> Zero, heat_score |-> Zero]

\* RouteMetrics.record
RouteRecordNoErrorCount(rm, latency, status_code, t, window_size) ==
    [rm EXCEPT !.latencies = DequeAppend(@, latency, window_size),
               !.timestamps = DequeAppend(@, t, window_size),
               !.total_requests = @ + 1]
RouteRecord(rm, latency, status_code, t, window_size) ==
    [rm EXCEPT !.latencies = DequeAppend(@, latency, window_size),
               !.timestamps = DequeAppend(@, t, window_size),
               !.total_requests = @ + 1,
               !.total_errors = IF status_code >= 400 THEN @ + 1 ELSE @,
               !.total_5xx = IF status_code >= 500 THEN @ + 1 ELSE @]

\* number of the timestamps within the trailing RpsWindow seconds
Recent(timestamps, t) ==
    Cardinality({i \in 1..Len(timestamps) : t - timestamps[i] <= RpsWindow})

\* RouteMetrics.compute_snapshot raises on a latency that is not a number
\* (sorted / statistics.mean)
SnapshotRaises(latencies) == \E i \in 1..Len(latencies) : latencies[i] = Malformed

HeatScoreLinearError(requests_per_second, avg_latency, error_rate) ==
    LET freq_score == RatMin(RatMul(requests_per_second, Rat(1, 10)), One)
        latency_score == RatMax(Zero, RatSub(One, RatMul(avg_latency, Rat(1, 200))))
        error_penalty == RatSub(One, error_rate)
    IN  RatAdd(RatAdd(RatMul(freq_score, Rat(1, 2)), RatMul(latency_score, Rat(3, 10))),
               RatMul(error_penalty, Rat(1, 5)))

\* the heat score of compute_snapshot, from the requests per second, the
\* average latency in centiseconds and the error rate
HeatScore(requests_per_second, avg_latency, error_rate) ==
    LET freq_score == RatMin(RatMul(requests_per_second, Rat(1, 10)), One)
        latency_score == RatMax(Zero, RatSub(One, RatMul(avg_latency, Rat(1, 200))))
        error_penalty == RatSub(One, RatMin(RatMul(error_rate, Rat(2, 1)), One))
    IN  RatAdd(RatAdd(RatMul(freq_score, Rat(1, 2)), RatMul(latency_score, Rat(3, 10))),
               RatMul(error_penalty, Rat(1, 5)))

RouteSnapshotOneBelow(rm, t) ==
    IF rm.latencies = <<>> THEN rm
    ELSE
    LET sorted_latencies == Sorted(rm.latencies)
        n == Len(sorted_latencies)
        avg == Rat(SumSeq(sorted_latencies), n)
        recent == Recent(rm.timestamps, t)
        rps == IF recent > 0 THEN Rat(recent, 60) ELSE Zero
        err == IF rm.total_requests > 0 THEN Rat(rm.total_errors, rm.total_requests) ELSE Zero
    IN  [rm EXCEPT !.avg_latency = avg,
                   !.p50_latency = sorted_latencies[(n \div 2) + 1],
                   !.p95_latency = IF n >= 20 THEN sorted_latencies[(n * 95) \div 100]
                                   ELSE sorted_latencies[n],
                   !.p99_latency = IF n >= 100 THEN sorted_latencies[((n * 99) \div 100) + 1]
                                   ELSE sorted_latencies[n],
                   !.requests_per_second = rps,
                   !.error_rate = err,
                   !.heat_score = HeatScore(rps, avg, err)]

\* RouteMetrics.compute_snapshot, on latencies that are numbers
RouteSnapshot(rm, t) ==
    IF rm.latencies = <<>> THEN rm
    ELSE
    LET sorted_latencies == Sorted(rm.latencies)
        n == Len(sorted_latencies)
        avg == Rat(SumSeq(sorted_latencies), n)
        recent == Recent(rm.timestamps, t)
        rps == IF recent > 0 THEN Rat(recent, 60) ELSE Zero
        err == IF rm.total_requests > 0 THEN Rat(rm.total_errors, rm.total_requests) ELSE Zero
    IN  [rm EXCEPT !.avg_latency = avg,
                   !.p50_latency = sorted_latencies[(n \div 2) + 1],
                   !.p95_latency = IF n >= 20 THEN sorted_latencies[((n * 95) \div 100) + 1]
                                   ELSE sorted_latencies[n],
                   !.p99_latency = IF n >= 100 THEN sorted_latencies[((n * 99) \div 100) + 1]
                                   ELSE sorted_latencies[n],
                   !.requests_per_second = rps,
                   !.error_rate = err,
                   !.heat_score = HeatScore(rps, avg, err)]

\* MiddlewareMetrics(name=name)
NewMiddlewareMetrics(name) ==
    [name |-> name, latencies |-> <<>>, short_circuit_count |-> 0, total_calls |-> 0,
     avg_latency |-> Zero]

\* MiddlewareMetrics.record
MiddlewareRecord(mm, latency, short_circuited) ==
    [mm EXCEPT !.latencies = DequeAppend(@, latency, MiddlewareWindow),
               !.total_calls = @ + 1,
               !.short_circuit_count = IF short_circuited THEN @ + 1 ELSE @]

\* MiddlewareMetrics.compute_snapshot
MiddlewareSnapshot(mm) ==
    IF mm.latencies = <<>> THEN mm
    ELSE [mm EXCEPT !.avg_latency = Rat(SumSeq(mm.latencies), Len(mm.latencies))]

\* MiddlewareMetrics.short_circuit_rate
ShortCircuitRate(mm) ==
    IF mm.total_calls > 0 THEN Rat(mm.short_circuit_count, mm.total_calls) ELSE Zero

\* TrafficAnalyzer.__init__
NewAnalyzer ==
    [routes |-> <<>>, middleware |-> <<>>, global_timestamps |-> <<>>,
     total_requests |-> 0, total_errors |-> 0, last_snapshot |-> 0, history |-> <<>>]

RouteIndex(routes, method, path) ==
    IF \E i \in 1..Len(routes) : routes[i].method = method /\ routes[i].path = path
    THEN CHOOSE i \in 1..Len(routes) : routes[i].method = method /\ routes[i].path = path
    ELSE 0

MiddlewareIndex(middleware, name) ==
    IF \E i \in 1..Len(middleware) : middleware[i].name = name
    THEN CHOOSE i \in 1..Len(middleware) : middleware[i].name = name
    ELSE 0

\* TrafficAnalyzer.record_request
RecordRequest(an, method, path_pattern, latency, status_code, t) ==
    LET key_method == Upper(method)
        routes1 == IF RouteIndex(an.routes, key_method, path_pattern) = 0
                   THEN Append(an.routes, NewRouteMetrics(key_method, path_pattern))
                   ELSE an.routes
        i == RouteIndex(routes1, key_method, path_pattern)
    IN  [an EXCEPT !.routes = [routes1 EXCEPT ![i] = RouteRecord(@, latency, status_code, t, WindowSize)],
                   !.global_timestamps = DequeAppend(@, t, GlobalWindow),
                   !.total_requests = @ + 1,
                   !.total_errors = IF status_code >= 400 THEN @ + 1 ELSE @]

\* TrafficAnalyzer.record_middleware
RecordMiddleware(an, name, latency, short_circuited) ==
    LET mw1 == IF MiddlewareIndex(an.middleware, name) = 0
               THEN Append(an.middleware, NewMiddlewareMetrics(name))
               ELSE an.middleware
        i == MiddlewareIndex(mw1, name)
    IN  [an EXCEPT !.middleware = [mw1 EXCEPT ![i] = MiddlewareRecord(@, latency, short_circuited)]]

\* TrafficAnalyzer.global_rps
GlobalRps(an, t) == Rat(Recent(an.global_timestamps, t), 60)

\* TrafficAnalyzer._build_history_point; time.time() is read off the same clock
BuildHistoryPoint(an, t) ==
    [ts |-> t, rps_global |-> GlobalRps(an, t),
     routes |-> [i \in 1..Len(an.routes) |->
                    [route |-> RouteId(an.routes[i].method, an.routes[i].path),
                     rps |-> an.routes[i].requests_per_second,
                     avg_lat |-> an.routes[i].avg_latency,
                     err_rate |-> an.routes[i].error_rate,
                     heat |-> an.routes[i].heat_score]]]

\* index of the first route whose compute_snapshot raises, 0 if none does
FirstRaising(routes) ==
    IF \E i \in 1..Len(routes) : SnapshotRaises(routes[i].latencies)
    THEN CHOOSE i \in 1..Len(routes) :
            /\ SnapshotRaises(routes[i].latencies)
            /\ \A j \in 1..(i - 1) : ~SnapshotRaises(routes[j].latencies)
    ELSE 0

\* TrafficAnalyzer._refresh_snapshots: the analyzer afterwards and whether the
\* call raised; the routes before the one that raises have been recomputed
RefreshSnapshots(an, t) ==
    LET k == FirstRaising(an.routes) IN
    IF k # 0
    THEN [analyzer |-> [an EXCEPT !.routes = [i \in 1..Len(an.routes) |->
                                      IF i < k THEN RouteSnapshot(an.routes[i], t)
                                      ELSE an.routes[i]]],
          raised |-> TRUE]
    ELSE LET an1 == [an EXCEPT !.routes = [i \in 1..Len(an.routes) |->
                                               RouteSnapshot(an.routes[i], t)],
                               !.middleware = [i \in 1..Len(an.middleware) |->
                                               MiddlewareSnapshot(an.middleware[i])],
                               !.last_snapshot = t]
         IN  [analyzer |-> [an1 EXCEPT !.history =
                                DequeAppend(@, BuildHistoryPoint(an1, t), HistorySize)],
              raised |-> FALSE]

\* TrafficAnalyzer.maybe_refresh
MaybeRefresh(an, t) ==
    IF t - an.last_snapshot < SnapshotInterval
    THEN [analyzer |-> an, raised |-> FALSE]
    ELSE RefreshSnapshots(an, t)

\* sorted(routes, key=heat_score, reverse=True): a stable sort, the first of
\* the routes of greatest heat comes first
RECURSIVE SortByHeat(_)
SortByHeat(routes) ==
    IF routes = <<>> THEN <<>>
    ELSE LET best == CHOOSE i \in 1..Len(routes) :
                        /\ \A j \in 1..Len(routes) : ~RatLess(routes[i].heat_score, routes[j].heat_score)
                        /\ \A j \in 1..(i - 1) : RatLess(routes[j].heat_score, routes[i].heat_score)
         IN  <<routes[best]>> \o
             SortByHeat(SubSeq(routes, 1, best - 1) \o SubSeq(routes, best + 1, Len(routes)))

Take(s, n) == SubSeq(s, 1, IF n < Len(s) THEN n ELSE Len(s))

\* TrafficAnalyzer.get_hot_routes: the analyzer afterwards, whether the call
\* raised, and the routes returned
GetHotRoutesUnsorted(an, top_n, t) ==
    LET r == MaybeRefresh(an, t) IN
    [analyzer |-> r.analyzer, raised |-> r.raised,
     ret |-> IF r.raised THEN <<>> ELSE Take(r.analyzer.routes, top_n)]
GetHotRoutes(an, top_n, t) ==
    LET r == MaybeRefresh(an, t) IN
    [analyzer |-> r.analyzer, raised |-> r.raised,
     ret |-> IF r.raised THEN <<>> ELSE Take(SortByHeat(r.analyzer.routes), top_n)]

\* the threshold of get_error_prone_routes on the requests of a route
MinErrorRequests == 10

\* TrafficAnalyzer.get_error_prone_routes
GetErrorProneRoutesAnyCount(an, threshold, t) ==
    LET r == MaybeRefresh(an, t) IN
    [analyzer |-> r.analyzer, raised |-> r.raised,
     ret |-> IF r.raised THEN <<>>
             ELSE SelectSeq(r.analyzer.routes, LAMBDA rm : RatLess(threshold, rm.error_rate))]
GetErrorProneRoutes(an, threshold, t) ==
    LET r == MaybeRefresh(an, t) IN
    [analyzer |-> r.analyzer, raised |-> r.raised,
     ret |-> IF r.raised THEN <<>>
             ELSE SelectSeq(r.analyzer.routes,
                            LAMBDA rm : /\ RatLess(threshold, rm.error_rate)
                                        /\ rm.total_requests >= MinErrorRequests)]

\* TrafficAnalyzer.get_middleware_metrics
GetMiddlewareMetrics(an, t) ==
    LET r == MaybeRefresh(an, t) IN
    [analyzer |-> r.analyzer, raised |-> r.raised,
     ret |-> IF r.raised THEN <<>> ELSE r.analyzer.middleware]

\* TrafficAnalyzer.reset
ResetAnalyzer(an) == NewAnalyzer

----------------------------------------------------------------------------
(* AdaptiveOptimizer *)

OptimizeInterval == 1       \* AdaptiveOptimizer.optimize_interval of the modelled instance
HotRouteSlots == 20         \* hot_route_slots
ReorderThreshold == Rat(15, 100)    \* reorder_threshold = 0.15
HeatThreshold == Rat(1, 10)         \* rm.heat_score > 0.1
RouteCachingEnabled == TRUE         \* route_caching_enabled
MiddlewareReorderEnabled == TRUE    \* middleware_reorder_enabled

\* _optimal_mw_order = None; a list that is set has two names or more
NoOrder == <<>>

\* AdaptiveOptimizer.__init__
NewOptimizer ==
    [hot_route_cache |-> <<>>, optimal_mw_order |-> NoOrder, mw_order_changed |-> FALSE,
     evolution_log |-> <<>>, optimization_count |-> 0, last_optimize |-> 0,
     reorder_threshold |-> ReorderThreshold]

HotKeys(hot_route_cache) ==
    {<<hot_route_cache[i].method, hot_route_cache[i].path>> : i \in 1..Len(hot_route_cache)}

\* AdaptiveOptimizer._optimize_hot_routes, given the routes get_hot_routes
\* returned: the optimizer afterwards and the actions
OptimizeHotRoutesForgetful(opt, hot_routes) ==
    LET hot == SelectSeq(hot_routes, LAMBDA rm : RatLess(HeatThreshold, rm.heat_score))
        new_cache == [i \in 1..Len(hot) |->
                        [method |-> hot[i].method, path |-> hot[i].path, heat |-> hot[i].heat_score]]
        promoted == HotKeys(new_cache)
    IN  [optimizer |-> [opt EXCEPT !.hot_route_cache = new_cache],
         actions |-> IF promoted # {} THEN <<[type |-> "route_promote", detail |-> promoted]>>
                     ELSE <<>>]
OptimizeHotRoutesHottest(opt, hot_routes) ==
    LET hot == SelectSeq(hot_routes, LAMBDA rm : RatLess(Rat(3, 5), rm.heat_score))
        new_cache == [i \in 1..Len(hot) |->
                        [method |-> hot[i].method, path |-> hot[i].path, heat |-> hot[i].heat_score]]
        old_keys == HotKeys(opt.hot_route_cache)
        new_keys == HotKeys(new_cache)
        promoted == new_keys \ old_keys
        demoted == old_keys \ new_keys
    IN  [optimizer |-> [opt EXCEPT !.hot_route_cache = new_cache],
         actions |-> (IF promoted # {} THEN <<[type |-> "route_promote", detail |-> promoted]>> ELSE <<>>)
                     \o (IF demoted # {} THEN <<[type |-> "route_demote", detail |-> demoted]>> ELSE <<>>)]
OptimizeHotRoutes(opt, hot_routes) ==
    LET hot == SelectSeq(hot_routes, LAMBDA rm : RatLess(HeatThreshold, rm.heat_score))
        new_cache == [i \in 1..Len(hot) |->
                        [method |-> hot[i].method, path |-> hot[i].path, heat |-> hot[i].heat_score]]
        old_keys == HotKeys(opt.hot_route_cache)
        new_keys == HotKeys(new_cache)
        promoted == new_keys \ old_keys
        demoted == old_keys \ new_keys
    IN  [optimizer |-> [opt EXCEPT !.hot_route_cache = new_cache],
         actions |-> (IF promoted # {} THEN <<[type |-> "route_promote", detail |-> promoted]>> ELSE <<>>)
                     \o (IF demoted # {} THEN <<[type |-> "route_demote", detail |-> demoted]>> ELSE <<>>)]

\* AdaptiveOptimizer.is_hot_route
IsHotRoute(opt, method, path_pattern) == <<Upper(method), path_pattern>> \in HotKeys(opt.hot_route_cache)

\* the score of a middleware: short_circuit_rate * 3.0 + max(0, 1.0 - avg_latency * 10.0),
\* the average latency being in centiseconds
MiddlewareScoreSpeedOnly(mm) == RatMax(Zero, RatSub(One, RatMul(mm.avg_latency, Rat(1, 10))))
MiddlewareScore(mm) ==
    RatAdd(RatMul(ShortCircuitRate(mm), Rat(3, 1)),
           RatMax(Zero, RatSub(One, RatMul(mm.avg_latency, Rat(1, 10)))))

\* scored.sort(key=score, reverse=True): a stable sort
RECURSIVE SortByScore(_)
SortByScore(mws) ==
    IF mws = <<>> THEN <<>>
    ELSE LET best == CHOOSE i \in 1..Len(mws) :
                        /\ \A j \in 1..Len(mws) : ~RatLess(MiddlewareScore(mws[i]), MiddlewareScore(mws[j]))
                        /\ \A j \in 1..(i - 1) : RatLess(MiddlewareScore(mws[j]), MiddlewareScore(mws[i]))
         IN  <<mws[best]>> \o
             SortByScore(SubSeq(mws, 1, best - 1) \o SubSeq(mws, best + 1, Len(mws)))

IndexIn(order, name) == CHOOSE i \in 1..Len(order) : order[i] = name

Max(S) == CHOOSE x \in S : \A y \in S : y <= x

\* max(abs(new_idx - old_scores.get(name, new_idx)) for new_idx, name in enumerate(new_order))
MaxShiftZero(old_order, new_order) == 0
MaxShift(old_order, new_order) ==
    Max({IF \E j \in 1..Len(old_order) : old_order[j] = new_order[i]
         THEN Abs(i - IndexIn(old_order, new_order[i]))
         ELSE 0 : i \in 1..Len(new_order)})

\* AdaptiveOptimizer._optimize_middleware_order, given the metrics
\* get_middleware_metrics returned: the optimizer afterwards and the actions
OptimizeMiddlewareOrder(opt, mw_metrics) ==
    IF Len(mw_metrics) < 2 THEN [optimizer |-> opt, actions |-> <<>>]
    ELSE
    LET scored == SortByScore(mw_metrics)
        new_order == [i \in 1..Len(scored) |-> scored[i].name]
    IN  IF opt.optimal_mw_order = NoOrder
        THEN [optimizer |-> [opt EXCEPT !.optimal_mw_order = new_order, !.mw_order_changed = TRUE],
              actions |-> <<[type |-> "middleware_initial_order", detail |-> new_order]>>]
        ELSE IF new_order # opt.optimal_mw_order
        THEN LET normalized_shift == Rat(MaxShift(opt.optimal_mw_order, new_order), Len(new_order))
             IN  IF ~RatLess(normalized_shift, opt.reorder_threshold)
                 THEN [optimizer |-> [opt EXCEPT !.optimal_mw_order = new_order,
                                                 !.mw_order_changed = TRUE],
                       actions |-> <<[type |-> "middleware_reorder",
                                      detail |-> <<opt.optimal_mw_order, new_order>>]>>]
                 ELSE [optimizer |-> [opt EXCEPT !.mw_order_changed = FALSE], actions |-> <<>>]
        ELSE [optimizer |-> opt, actions |-> <<>>]

\* run_optimization_cycle, its end: the log entry, or the exception that left
\* the cycle (s1, s2: what the two steps returned; q2: the analyzer's answer)
CycleLogLatestOnly(s1, q2, s2, t) ==
    IF q2.raised
    THEN [optimizer |-> s1.optimizer, analyzer |-> q2.analyzer, raised |-> TRUE]
    ELSE [optimizer |->
             IF s1.actions \o s2.actions # <<>>
             THEN [s2.optimizer EXCEPT !.evolution_log =
                      <<[cycle |-> s2.optimizer.optimization_count, ts |-> t,
                         actions |-> s1.actions \o s2.actions]>>]
             ELSE s2.optimizer,
          analyzer |-> q2.analyzer, raised |-> FALSE]

CycleLog(s1, q2, s2, t) ==
    IF q2.raised
    THEN [optimizer |-> s1.optimizer, analyzer |-> q2.analyzer, raised |-> TRUE]
    ELSE [optimizer |->
             IF s1.actions \o s2.actions # <<>>
             THEN [s2.optimizer EXCEPT !.evolution_log =
                      Append(@, [cycle |-> s2.optimizer.optimization_count, ts |-> t,
                                 actions |-> s1.actions \o s2.actions])]
             ELSE s2.optimizer,
          analyzer |-> q2.analyzer, raised |-> FALSE]

\* run_optimization_cycle, step 2: middleware reordering
CycleMiddleware(s1, q2, t) ==
    CycleLog(s1, q2,
             IF MiddlewareReorderEnabled /\ ~q2.raised
             THEN OptimizeMiddlewareOrder(s1.optimizer, q2.ret)
             ELSE [optimizer |-> s1.optimizer, actions |-> <<>>],
             t)

\* run_optimization_cycle, step 1: route heat optimization (q1: the analyzer's
\* answer to get_hot_routes)
CycleHotRoutes(opt1, q1, t) ==
    CycleMiddleware(IF RouteCachingEnabled /\ ~q1.raised THEN OptimizeHotRoutes(opt1, q1.ret)
                    ELSE [optimizer |-> opt1, actions |-> <<>>],
                    IF MiddlewareReorderEnabled /\ ~q1.raised
                    THEN GetMiddlewareMetrics(q1.analyzer, t)
                    ELSE [analyzer |-> q1.analyzer, raised |-> q1.raised, ret |-> <<>>],
                    t)

\* AdaptiveOptimizer.run_optimization_cycle: the optimizer and the analyzer
\* afterwards and whether the call raised.  An exception of the analyzer
\* passes through the with block, which has no handler.
RunOptimizationCycle(opt, an, t) ==
    CycleHotRoutes([opt EXCEPT !.last_optimize = t, !.optimization_count = @ + 1],
                   IF RouteCachingEnabled THEN GetHotRoutes(an, HotRouteSlots, t)
                   ELSE [analyzer |-> an, raised |-> FALSE, ret |-> <<>>],
                   t)

\* now - self._last_optimize < self.optimize_interval
TooEarlyNever(t, last_optimize) == FALSE
TooEarly(t, last_optimize) == t - last_optimize < OptimizeInterval

\* AdaptiveOptimizer.maybe_optimize
MaybeOptimize(opt, an, t) ==
    IF TooEarly(t, opt.last_optimize)
    THEN [optimizer |-> opt, analyzer |-> an, raised |-> FALSE]
    ELSE RunOptimizationCycle(opt, an, t)

----------------------------------------------------------------------------
(* The keys in order of their last access, kept apart from the cache's own order *)

Touch(r, key) == SelectSeq(r, LAMBDA k : k # key) \o <<key>>
Restrict(r, keys) == SelectSeq(r, LAMBDA k : k \in keys)

\* last: the call, the cache key or the request it was about, the payload and
\* ttl it was given, the value it returned and what it met (get: "absent",
\* "expired", "hit"; put: "evicted" when an entry was evicted; try_cache_hit:
\* "bypass", "miss", "hit")
Call(op, key, args, data, ttl, ret, info) ==
    [op |-> op, key |-> key, args |-> args, data |-> data, ttl |-> ttl, ret |-> ret, info |-> info]
NoCall == Call("none", <<>>, <<>>, None, -1, None, "")

\* the threads of the host that call into the engine
Threads == {1, 2}
Idle == [pc |-> "idle"]
NoThreads == [t \in Threads |-> Idle]
\* threading.Lock(), unlocked
NoLocks == [analyzer |-> 0, optimizer |-> 0]
\* nothing constructed yet
NoConfig == [kind |-> "none"]
\* JSONPreEncoder.__init__: no template, no fingerprint
NewEncoder == [templates |-> <<>>, fingerprints |-> <<>>]
\* LatencyPredictor.__init__: no route has predictors
NewPredictor == <<>>

Init ==
    /\ now = 0
    /\ cache = <<>>
    /\ hits = 0
    /\ misses = 0
    /\ memoized_routes = {}
    /\ preencoded_routes = {}
    /\ route_ttls = <<>>
    /\ cache_bypasses = 0
    /\ cp_total_requests = 0
    /\ analyzer = NewAnalyzer
    /\ optimizer = NewOptimizer
    /\ last = NoCall
    /\ recency = <<>>
    /\ calls = {}
    /\ threads = NoThreads
    /\ locks = NoLocks
    /\ config = NoConfig
    /\ encoder = NewEncoder
    /\ predictor = NewPredictor

\* the clock advances between calls
Tick ==
    /\ now < MaxTime
    /\ now' = now + 1
    /\ last' = Call("tick", <<>>, <<>>, None, -1, None, "")
    /\ UNCHANGED <<hostVars, cache, hits, misses, codepathVars, recency, engineVars>>

----------------------------------------------------------------------------
(* Calls on a ResponseCache *)

CacheKeys ==
    {EntryKey(RouteId("GET", PathX), build_cache_key("GET", PathX, q)) : q \in Queries}
        \cup {EntryKey(RouteId("GET", PathZ), build_cache_key("GET", PathZ, QueryEmpty))}

GetInfo(c, key, t) ==
    IF ~Has(c, key) THEN "absent" ELSE IF t > Entry(c, key).expires_at THEN "expired" ELSE "hit"

Get(key) ==
    LET r == CacheGet(cache, key, now) IN
    /\ hits + misses < MaxCount
    /\ cache' = r.cache
    /\ hits' = hits + r.hit
    /\ misses' = misses + r.miss
    /\ last' = Call("get", key, <<>>, None, -1, r.ret, GetInfo(cache, key, now))
    /\ recency' = Restrict(IF r.ret # None THEN Touch(recency, key) ELSE recency, KeysOf(cache'))
    /\ UNCHANGED <<hostVars, now, codepathVars, engineVars>>

Put(key, data, ttl) ==
    /\ cache' = CachePut(cache, key, data, ttl, now, MaxSize, <<>>)
    /\ last' = Call("put", key, <<>>, data, ttl, None,
                    IF KeysOf(cache) \subseteq KeysOf(cache') THEN "" ELSE "evicted")
    /\ recency' = Restrict(Touch(recency, key), KeysOf(cache'))
    /\ UNCHANGED <<hostVars, now, hits, misses, codepathVars, engineVars>>

\* ResponseCache.invalidate
Invalidate(key) ==
    /\ cache' = Remove(cache, key)
    /\ last' = Call("invalidate", key, <<>>, None, -1, None, "")
    /\ recency' = Restrict(recency, KeysOf(cache'))
    /\ UNCHANGED <<hostVars, now, hits, misses, codepathVars, engineVars>>

EvictExpired ==
    /\ cache' = CacheEvictExpired(cache, now)
    /\ last' = Call("evict_expired", <<>>, <<>>, None, -1, None, "")
    /\ recency' = Restrict(recency, KeysOf(cache'))
    /\ UNCHANGED <<hostVars, now, hits, misses, codepathVars, engineVars>>

NextCache ==
    \/ Tick
    \/ \E key \in CacheKeys : Get(key)
    \/ \E key \in CacheKeys, data \in Payloads, ttl \in Ttls \cup {DefaultTtl} : Put(key, data, ttl)
    \/ \E key \in CacheKeys : Invalidate(key)
    \/ EvictExpired

SpecCache == Init /\ [][NextCache]_vars

----------------------------------------------------------------------------
(* C2: when a put of a key that is not in a full cache (max_size entries)    *)
(* returns, the cache holds exactly max_size entries, the new key is one of  *)
(* them, and the one key that left is the least recently accessed one, an    *)
(* access being a get hit or a put.                                          *)
C2_LruEviction ==
    [][(last'.op = "put" /\ last'.key \notin KeysOf(cache) /\ Len(cache) = MaxSize)
        => /\ Len(cache') = MaxSize
           /\ last'.key \in KeysOf(cache')
           /\ KeysOf(cache) \ KeysOf(cache') = {Head(recency)}]_vars

\* a put has evicted an entry after a get hit had changed the order of access
C2_Witness ==
    /\ last.op = "put" /\ last.info = "evicted"
    /\ Len(cache) = MaxSize
    /\ hits > 0

(* C3: a get returns a value only from an entry whose expiry has not passed, *)
(* which it makes the most recent entry and counts as a hit; a get on an     *)
(* entry whose expiry has passed returns None, removes the entry and counts  *)
(* as a miss.                                                                *)
C3_GetNeverReturnsExpired ==
    [][last'.op = "get" =>
        LET key == last'.key IN
        /\ last'.ret # None =>
              /\ Has(cache, key)
              /\ ~(now > Entry(cache, key).expires_at)
              /\ last'.ret = Entry(cache, key).data
              /\ cache'[Len(cache')].key = key
              /\ hits' = hits + 1 /\ misses' = misses
        /\ (Has(cache, key) /\ now > Entry(cache, key).expires_at) =>
              /\ last'.ret = None
              /\ ~Has(cache', key)
              /\ misses' = misses + 1 /\ hits' = hits]_vars

\* a get has met an expired entry
C3_Witness == last.op = "get" /\ last.info = "expired" /\ last.ret = None

(* C4: a get of the key that directly follows put(key, v, ttl=0), the clock  *)
(* not having advanced, returns None.                                        *)
C4_ImmediateGetAfterZeroTtlMisses ==
    [][(last.op = "put" /\ last.ttl = 0 /\ last'.op = "get" /\ last'.key = last.key)
        => last'.ret = None]_vars

----------------------------------------------------------------------------
(* Calls on a CodePathOptimizer *)

GetX == RouteId("GET", PathX)
GetZ == RouteId("GET", PathZ)

\* the requests (route_id, method, path, query_string) the calls are made with
Requests ==
    { <<GetX, "GET", PathX, QueryEmpty>>, <<GetX, "GET", PathX, QueryA>>,
      <<GetX, "POST", PathX, QueryEmpty>>, <<GetZ, "HEAD", PathZ, QueryEmpty>> }

\* the responses stored for them: the first request is answered in two ways
Stores ==
    {st \in Requests \X Payloads :
        st[2].body = "b1" \/ st[1] = <<GetX, "GET", PathX, QueryEmpty>>}

NoTtl == -1     \* ttl=None

\* CodePathOptimizer.enable_memoization
EnableMemoization(route_id, ttl) ==
    /\ memoized_routes' = memoized_routes \cup {route_id}
    /\ route_ttls' = IF ttl # NoTtl THEN DictSet(route_ttls, route_id, ttl) ELSE route_ttls
    /\ last' = Call("enable_memoization", <<>>, <<route_id>>, None, ttl, None, "")
    /\ UNCHANGED <<hostVars, now, cacheVars, preencoded_routes, cache_bypasses, cp_total_requests, recency,
                   engineVars>>

\* CodePathOptimizer.disable_memoization
DisableMemoization(route_id) ==
    /\ memoized_routes' = memoized_routes \ {route_id}
    /\ route_ttls' = DictPop(route_ttls, route_id)
    /\ cache' = CacheInvalidatePattern(cache, route_id)
    /\ last' = Call("disable_memoization", <<>>, <<route_id>>, None, -1, None, "")
    /\ recency' = Restrict(recency, KeysOf(cache'))
    /\ UNCHANGED <<hostVars, now, hits, misses, preencoded_routes, cache_bypasses, cp_total_requests,
                   engineVars>>

TryCacheHitCall(route_id, method, path, query_string) ==
    \E r \in {TryCacheHit(cache, memoized_routes, route_id, method, path, query_string, now)} :
    /\ cp_total_requests < MaxCount
    /\ cp_total_requests' = cp_total_requests + 1
    /\ cache_bypasses' = cache_bypasses + r.bypass
    /\ cache' = r.cache
    /\ hits' = hits + r.hit
    /\ misses' = misses + r.miss
    /\ last' = Call("try_cache_hit", <<>>, <<route_id, method, path, query_string>>, None, -1, r.ret,
                    IF r.bypass = 1 THEN "bypass" ELSE IF r.hit = 1 THEN "hit" ELSE "miss")
    /\ recency' = Restrict(recency, KeysOf(cache'))
    /\ UNCHANGED <<hostVars, now, memoized_routes, preencoded_routes, route_ttls, engineVars>>

StoreResponseCall(route_id, method, path, query_string, response_data) ==
    /\ cache' = StoreResponse(cache, memoized_routes, route_ttls, route_id, method, path,
                              query_string, response_data, now, DefaultTtl, MaxSize)
    /\ last' = Call("store_response", <<>>, <<route_id, method, path, query_string>>,
                    response_data, -1, None, "")
    /\ recency' = Restrict(recency, KeysOf(cache'))
    /\ UNCHANGED <<hostVars, now, hits, misses, codepathVars, engineVars>>

NextCodePath ==
    \/ Tick
    \/ \E route_id \in {GetX, GetZ} : EnableMemoization(route_id, NoTtl)
    \/ EnableMemoization(GetX, 0)
    \/ \E route_id \in {GetX, GetZ} : DisableMemoization(route_id)
    \/ \E rq \in Requests : TryCacheHitCall(rq[1], rq[2], rq[3], rq[4])
    \/ \E st \in Stores : StoreResponseCall(st[1][1], st[1][2], st[1][3], st[1][4], st[2])

SpecCodePath == Init /\ [][NextCodePath]_vars

(* C5: a try_cache_hit that directly follows a store_response for the same   *)
(* route, method, path and query string on a memoized route (method GET or   *)
(* HEAD) returns the stored payload; and whatever try_cache_hit returns is   *)
(* the payload of an unexpired entry stored for exactly its route, method,   *)
(* path and query string, so a request for which nothing is stored, such as  *)
(* one that differs in the query string only, gets None.                     *)
C5_CacheHitSameRequestOnly ==
    [][last'.op = "try_cache_hit" =>
        /\ (/\ last.op = "store_response" /\ last.args = last'.args
            /\ last.args[1] \in memoized_routes /\ last.args[2] \in {"GET", "HEAD"})
              => last'.ret = last.data
        /\ last'.ret # None =>
              \E i \in 1..Len(cache) :
                  /\ cache[i].args = last'.args
                  /\ cache[i].data = last'.ret
                  /\ ~(now > cache[i].expires_at)]_vars

\* a hit for one query string while another payload is stored for the same
\* route, method and path under a different query string
C5_Witness ==
    /\ last.op = "try_cache_hit" /\ last.ret # None
    /\ \E i \in 1..Len(cache) :
          /\ cache[i].args # last.args
          /\ SubSeq(cache[i].args, 1, 3) = SubSeq(last.args, 1, 3)
          /\ cache[i].data # last.ret

(* C7: when the route is not memoized or the method is neither GET nor HEAD, *)
(* store_response and try_cache_hit leave the cache and its hit and miss     *)
(* counters unchanged, and try_cache_hit returns None and counts a bypass.   *)
C7_OnlyMemoizedGetHead ==
    [][(/\ last'.op \in {"try_cache_hit", "store_response"}
        /\ (last'.args[1] \notin memoized_routes \/ last'.args[2] \notin {"GET", "HEAD"}))
        => /\ cache' = cache /\ hits' = hits /\ misses' = misses
           /\ last'.op = "try_cache_hit" =>
                 /\ last'.ret = None
                 /\ cache_bypasses' = cache_bypasses + 1]_vars

\* a store_response for a route that is not memoized, while another route is
\* memoized and has an entry in the cache
C7_Witness ==
    /\ last.op = "store_response"
    /\ last.args[1] \notin memoized_routes
    /\ last.args[2] = "GET"
    /\ memoized_routes # {}
    /\ cache # <<>>

----------------------------------------------------------------------------
(* Calls on a TrafficAnalyzer *)

Quiet(op) == Call(op, <<>>, <<>>, None, -1, None, "")

\* calls: one element per record_request call made, the k-th call with a given
\* method, path and status carrying the number k
Logged(log, method, path, status_code) ==
    log \cup {[method |-> method, path |-> path, status_code |-> status_code,
               k |-> 1 + Cardinality({c \in log : /\ c.method = method /\ c.path = path
                                                  /\ c.status_code = status_code})]}

RecordRequestCall(method, path_pattern, latency, status_code) ==
    /\ Cardinality(calls) < MaxRequests
    /\ analyzer' = RecordRequest(analyzer, method, path_pattern, latency, status_code, now)
    /\ calls' = Logged(calls, method, path_pattern, status_code)
    /\ last' = Quiet("record_request")
    /\ UNCHANGED <<hostVars, now, cacheVars, codepathVars, optimizer, recency>>

RecordMiddlewareUpTo(cap, name, latency, short_circuited) ==
    /\ SumSeq([i \in 1..Len(analyzer.middleware) |-> analyzer.middleware[i].total_calls]) < cap
    /\ analyzer' = RecordMiddleware(analyzer, name, latency, short_circuited)
    /\ last' = Quiet("record_middleware")
    /\ UNCHANGED <<hostVars, now, cacheVars, codepathVars, optimizer, recency, calls>>

RecordMiddlewareCall(name, latency, short_circuited) ==
    RecordMiddlewareUpTo(MaxMiddlewareCalls, name, latency, short_circuited)

GetHotRoutesCall(top_n) ==
    \E r \in {GetHotRoutes(analyzer, top_n, now)} :
    /\ analyzer' = r.analyzer
    /\ last' = Call("get_hot_routes", <<>>, <<>>, None, -1, None,
                    IF r.raised THEN "raised" ELSE "")
    /\ UNCHANGED <<hostVars, now, cacheVars, codepathVars, optimizer, recency, calls>>

ResetAnalyzerCall ==
    /\ analyzer' = ResetAnalyzer(analyzer)
    /\ calls' = {}
    /\ last' = Quiet("reset")
    /\ UNCHANGED <<hostVars, now, cacheVars, codepathVars, optimizer, recency>>

\* the record_request calls made: a lower-case method, and a second route;
\* a status below and one at the threshold 400
TrafficRequests == {<<"get", PathX>>, <<"GET", PathX>>, <<"POST", PathZ>>}
Statuses == {200, 400}

NextTraffic ==
    \/ Tick
    \/ \E rq \in TrafficRequests, status_code \in Statuses :
          RecordRequestCall(rq[1], rq[2], 1, status_code)
    \/ GetHotRoutesCall(1)
    \/ ResetAnalyzerCall

SpecTraffic == Init /\ [][NextTraffic]_vars

CallsOf(method, path) == {c \in calls : Upper(c.method) = method /\ c.path = path}

(* C1: each route's total_requests is the number of record_request calls     *)
(* made since construction or the last reset for its (upper-cased method,    *)
(* path pattern), its total_errors the number of those with status >= 400;   *)
(* every call made has its route, one per key; and the analyzer's            *)
(* total_requests and total_errors are the same counts over all the calls.   *)
C1_CountersMatchCalls ==
    /\ \A i \in 1..Len(analyzer.routes) :
          LET rm == analyzer.routes[i] IN
          /\ rm.total_requests = Cardinality(CallsOf(rm.method, rm.path))
          /\ rm.total_errors =
                Cardinality({c \in CallsOf(rm.method, rm.path) : c.status_code >= 400})
          /\ \A k \in 1..Len(analyzer.routes) :
                (analyzer.routes[k].method = rm.method /\ analyzer.routes[k].path = rm.path) => k = i
    /\ \A c \in calls :
          \E i \in 1..Len(analyzer.routes) :
              /\ analyzer.routes[i].method = Upper(c.method)
              /\ analyzer.routes[i].path = c.path
    /\ analyzer.total_requests = Cardinality(calls)
    /\ analyzer.total_errors = Cardinality({c \in calls : c.status_code >= 400})

\* a route that has counted a lower-case and an upper-case call, one of them
\* an error
C1_Witness ==
    /\ \E i \in 1..Len(analyzer.routes) :
          /\ analyzer.routes[i].total_requests >= 2
          /\ analyzer.routes[i].total_errors = 1
    /\ \E c \in calls : c.method = "get"

----------------------------------------------------------------------------
(* Calls on an AdaptiveOptimizer *)

MaybeOptimizeCall ==
    \E r \in {MaybeOptimize(optimizer, analyzer, now)} :
    /\ optimizer' = r.optimizer
    /\ analyzer' = r.analyzer
    /\ last' = Call("maybe_optimize", <<>>, <<>>, None, -1, None,
                    IF r.raised THEN "raised"
                    ELSE IF now - optimizer.last_optimize < OptimizeInterval THEN "skipped"
                    ELSE "cycle")
    /\ UNCHANGED <<hostVars, now, cacheVars, codepathVars, recency, calls>>

\* a fast route without errors and a slow route of server errors
OptimizerRequests == {<<"GET", PathX, 1, 200>>, <<"GET", PathZ, 200, 500>>}

\* a fast execution and a slow, short-circuiting one, of two middleware
MiddlewareNames == {"A", "B"}
MiddlewareRuns == {<<1, FALSE>>, <<20, TRUE>>}

NextOptimizer ==
    \/ Tick
    \/ \E rq \in OptimizerRequests : RecordRequestCall(rq[1], rq[2], rq[3], rq[4])
    \/ \E name \in MiddlewareNames, run \in MiddlewareRuns : RecordMiddlewareCall(name, run[1], run[2])
    \/ MaybeOptimizeCall

SpecOptimizer == Init /\ [][NextOptimizer]_vars

HotNow(an) ==
    {<<an.routes[i].method, an.routes[i].path>> :
        i \in {j \in 1..Len(an.routes) : RatLess(HeatThreshold, an.routes[j].heat_score)}}

(* C10: a maybe_optimize call made less than optimize_interval after the     *)
(* last cycle started leaves the optimizer (cycle counter, hot set,          *)
(* middleware order, evolution log, last-run time) as it was; any other call *)
(* runs one cycle: the counter grows by one, the last-run time is the time   *)
(* of the call, the hot set is the set of the tracked routes of heat above   *)
(* 0.1, a middleware order exists when two or more middleware are tracked,   *)
(* and the log grows by one entry, carrying the new counter, when the hot    *)
(* set or the order changed and by none otherwise.                           *)
C10_MaybeOptimizeGate ==
    [][last'.op = "maybe_optimize" =>
        IF now - optimizer.last_optimize < OptimizeInterval
        THEN optimizer' = optimizer
        ELSE /\ optimizer'.optimization_count = optimizer.optimization_count + 1
             /\ optimizer'.last_optimize = now
             /\ HotKeys(optimizer'.hot_route_cache) = HotNow(analyzer')
             /\ Len(analyzer'.middleware) >= 2 => optimizer'.optimal_mw_order # NoOrder
             /\ IF \/ HotKeys(optimizer'.hot_route_cache) # HotKeys(optimizer.hot_route_cache)
                   \/ optimizer'.optimal_mw_order # optimizer.optimal_mw_order
                THEN /\ Len(optimizer'.evolution_log) = Len(optimizer.evolution_log) + 1
                     /\ optimizer'.evolution_log[Len(optimizer'.evolution_log)].cycle
                            = optimizer'.optimization_count
                     /\ SubSeq(optimizer'.evolution_log, 1, Len(optimizer.evolution_log))
                            = optimizer.evolution_log
                ELSE optimizer'.evolution_log = optimizer.evolution_log]_vars

\* a call that came too early, after a cycle that logged its actions
C10_Witness ==
    /\ last.op = "maybe_optimize" /\ last.info = "skipped"
    /\ optimizer.optimization_count >= 1
    /\ optimizer.evolution_log # <<>>
    /\ optimizer.hot_route_cache # <<>>

----------------------------------------------------------------------------
(* The host's routes *)

\* the parameter of a route pattern, <id>, and a path segment it matches
ParamId == "<id>"
PatternU == <<"/", "u", "/", ParamId>>
PathU1 == <<"/", "u", "/", "1">>

\* Route.is_dynamic
IsDynamic(pattern) == \E i \in 1..Len(pattern) : pattern[i] = ParamId

\* Route.match: the pattern is compiled to ^...$, a parameter to ([^/]+)
RouteMatch(pattern, path) ==
    /\ Len(path) = Len(pattern)
    /\ \A i \in 1..Len(pattern) :
          IF pattern[i] = ParamId THEN path[i] # "/" ELSE path[i] = pattern[i]

\* the routes in the order of their registration; add_route adds HEAD to GET
HostRoutes ==
    << [path |-> PathX, methods |-> {"GET", "HEAD", "POST"}],
       [path |-> PatternU, methods |-> {"GET", "HEAD"}] >>

NoRoute == [none |-> TRUE]

\* Router.resolve: the static routes by their path first, then the dynamic
\* routes in order; the first route that matches the path decides
Resolve(path, method) ==
    LET static == {i \in 1..Len(HostRoutes) :
                      ~IsDynamic(HostRoutes[i].path) /\ HostRoutes[i].path = path}
        dynamic == {i \in 1..Len(HostRoutes) :
                      IsDynamic(HostRoutes[i].path) /\ RouteMatch(HostRoutes[i].path, path)}
        first(S) == CHOOSE i \in S : \A j \in S : i <= j
    IN  IF static # {}
        THEN IF \E i \in static : Upper(method) \in HostRoutes[i].methods
             THEN HostRoutes[CHOOSE i \in static : Upper(method) \in HostRoutes[i].methods]
             ELSE NoRoute
        ELSE IF dynamic # {}
        THEN IF Upper(method) \in HostRoutes[first(dynamic)].methods
             THEN HostRoutes[first(dynamic)]
             ELSE NoRoute
        ELSE NoRoute

----------------------------------------------------------------------------
(* SARE, the facade *)

AutoMemoize == TRUE                         \* auto_memoize
AutoMemoizeRpsThreshold == Rat(1, 30)       \* auto_memoize_rps_threshold of the modelled instance
AutoMemoizeErrorThreshold == Rat(2, 100)    \* auto_memoize_error_threshold = 0.02
MinMemoizeRequests == 50                    \* rm.total_requests >= 50
PredictorEnabled == FALSE                   \* predictor_enabled of the modelled instance

\* SARE._auto_memoize_check: the route ids it enables, given the hot routes
AutoMemoizeCheckAnyMethod(memo, hot_routes) ==
    {RouteId(hot_routes[i].method, hot_routes[i].path) :
        i \in {j \in 1..Len(hot_routes) :
                 /\ RouteId(hot_routes[j].method, hot_routes[j].path) \notin memo
                 /\ ~RatLess(hot_routes[j].requests_per_second, AutoMemoizeRpsThreshold)
                 /\ ~RatLess(AutoMemoizeErrorThreshold, hot_routes[j].error_rate)
                 /\ hot_routes[j].total_requests >= MinMemoizeRequests}}
AutoMemoizeCheck(memo, hot_routes) ==
    {RouteId(hot_routes[i].method, hot_routes[i].path) :
        i \in {j \in 1..Len(hot_routes) :
                 /\ hot_routes[j].method = "GET"
                 /\ RouteId(hot_routes[j].method, hot_routes[j].path) \notin memo
                 /\ ~RatLess(hot_routes[j].requests_per_second, AutoMemoizeRpsThreshold)
                 /\ ~RatLess(AutoMemoizeErrorThreshold, hot_routes[j].error_rate)
                 /\ hot_routes[j].total_requests >= MinMemoizeRequests}}

\* after_request: if status_code < 400
ShouldStoreAlways(status_code) == TRUE
ShouldStore(status_code) == status_code < 400

\* the response_data dict after_request builds; the content type and the
\* headers are the same in every response made here
ResponseData(body, status_code) == [body |-> body, status_code |-> status_code]

\* SARE.before_request on an enabled engine.  An exception of maybe_optimize
\* or of _auto_memoize_check leaves the method at once: nothing in it, or in
\* the methods it calls, handles one.
BeforeRequestCall(method, path, query_string) ==
    \E m \in {MaybeOptimize(optimizer, analyzer, now)} :
    \E h \in {IF AutoMemoize /\ ~m.raised THEN GetHotRoutes(m.analyzer, 20, now)
              ELSE [analyzer |-> m.analyzer, raised |-> m.raised, ret |-> <<>>]} :
    LET enabled == IF AutoMemoize /\ ~h.raised THEN AutoMemoizeCheck(memoized_routes, h.ret)
                   ELSE {}
        memo == memoized_routes \cup enabled
        route_id == RouteId(method, path)
        r == TryCacheHit(cache, memo, route_id, method, path, query_string, now)
    IN  /\ cp_total_requests < MaxCount
        /\ cp_total_requests + Cardinality(calls) < MaxFacadeCalls
        /\ optimizer' = m.optimizer
        /\ analyzer' = h.analyzer
        /\ IF h.raised
           THEN /\ last' = Call("before_request", <<>>, <<method, path, query_string>>, None, -1,
                                None, "raised")
                /\ UNCHANGED <<cacheVars, codepathVars, recency>>
           ELSE /\ memoized_routes' = memo
                /\ preencoded_routes' = preencoded_routes \cup enabled
                /\ cp_total_requests' = cp_total_requests + 1
                /\ cache_bypasses' = cache_bypasses + r.bypass
                /\ cache' = r.cache
                /\ hits' = hits + r.hit
                /\ misses' = misses + r.miss
                /\ recency' = Restrict(recency, KeysOf(cache'))
                /\ last' = Call("before_request", <<>>, <<method, path, query_string>>, None, -1,
                                r.ret, IF r.hit = 1 THEN "hit" ELSE "")
                /\ UNCHANGED route_ttls
        /\ UNCHANGED <<hostVars, now, calls>>

\* SARE.after_request on an enabled engine, as the host calls it: with the
\* route the router resolved the request to, up to the predictor's step.  The
\* body is text that is not JSON, so json.loads raises JSONDecodeError and
\* nothing is learned.
AfterRequestSteps(method, path, query_string, body, status_code, latency) ==
    LET route == Resolve(path, method)
        path_pattern == route.path
        route_id == RouteId(method, path_pattern)
        response_data == ResponseData(body, status_code)
    IN  /\ route # NoRoute
        /\ Cardinality(calls) < MaxRequests
        /\ cp_total_requests + Cardinality(calls) < MaxFacadeCalls
        /\ analyzer' = RecordRequest(analyzer, method, path_pattern, latency, status_code, now)
        /\ calls' = Logged(calls, method, path_pattern, status_code)
        /\ cache' = IF ShouldStore(status_code)
                    THEN StoreResponse(cache, memoized_routes, route_ttls, route_id, method, path,
                                       query_string, response_data, now, DefaultTtl, MaxSize)
                    ELSE cache
        /\ recency' = Restrict(recency, KeysOf(cache'))
        /\ last' = Call("after_request", <<>>, <<method, path, query_string>>, response_data, -1,
                        None, IF cache' # cache THEN "stored" ELSE "")
        /\ UNCHANGED <<now, hits, misses, codepathVars, optimizer, threads, locks, config, encoder>>

\* SARE.after_request with the predictor disabled
AfterRequestCall(method, path, query_string, body, status_code, latency) ==
    /\ AfterRequestSteps(method, path, query_string, body, status_code, latency)
    /\ UNCHANGED predictor

\* the requests (method, path, query string) the host passes on
FacadeRequests ==
    {<<"GET", PathX, QueryEmpty>>, <<"GET", PathU1, QueryEmpty>>}

\* the routes memoization is enabled for, by the pattern they are tracked under
FacadeRouteIds == {RouteId("GET", PathX), RouteId("GET", PatternU)}

NextFacade ==
    \/ Tick
    \/ \E route_id \in FacadeRouteIds : EnableMemoization(route_id, NoTtl)
    \/ \E rq \in FacadeRequests : BeforeRequestCall(rq[1], rq[2], rq[3])
    \/ \E rq \in FacadeRequests, status_code \in Statuses :
          AfterRequestCall(rq[1], rq[2], rq[3], "b1", status_code, 1)

SpecFacade == Init /\ [][NextFacade]_vars

(* C6: a before_request that directly follows the after_request of a GET     *)
(* response of status below 400 on a memoized route, for the same method,    *)
(* concrete path and query string, returns the payload after_request stored, *)
(* whether or not the route's pattern equals the concrete path.              *)
C6_FacadeCacheHit ==
    [][(/\ last.op = "after_request" /\ last.args[1] = "GET"
        /\ last.data.status_code < 400
        /\ RouteId("GET", Resolve(last.args[2], "GET").path) \in memoized_routes
        /\ last'.op = "before_request" /\ last'.args = last.args)
        => last'.ret = last.data]_vars

(* C8: every payload in the response cache has a status below 400, and so    *)
(* has every payload before_request returns; an after_request call changes   *)
(* the cache only when the status of its response is below 400 and the       *)
(* route, by its pattern, is memoized.                                       *)
C8_CachedPayloadsSuccessful ==
    [][/\ \A i \in 1..Len(cache') : cache'[i].data.status_code < 400
       /\ (last'.op = "before_request" /\ last'.ret # None) => last'.ret.status_code < 400
       /\ (last'.op = "after_request" /\ cache' # cache)
            => /\ last'.data.status_code < 400
               /\ RouteId(last'.args[1], Resolve(last'.args[2], last'.args[1]).path)
                     \in memoized_routes]_vars

\* a request served from the cache after the same route has answered it once
\* with a success and once with an error
C8_Witness ==
    /\ last.op = "before_request" /\ last.ret # None
    /\ \E i \in 1..Len(analyzer.routes) :
          /\ RouteId(analyzer.routes[i].method, analyzer.routes[i].path) \in memoized_routes
          /\ analyzer.routes[i].total_errors >= 1
          /\ analyzer.routes[i].total_requests >= 2

----------------------------------------------------------------------------
(* Faults in an optimization cycle *)

\* record_request takes whatever latency it is given
FaultLatencies == {1, Malformed}

NextFault ==
    \/ Tick
    \/ \E latency \in FaultLatencies : RecordRequestCall("GET", PathX, latency, 200)
    \/ MaybeOptimizeCall
    \/ BeforeRequestCall("GET", PathX, QueryEmpty)

SpecFault == Init /\ [][NextFault]_vars

(* C9: maybe_optimize and before_request return normally, whatever the       *)
(* analyzer holds: an exception raised while a cycle reads the analyzer's    *)
(* metrics does not reach their caller.                                      *)
C9_FaultCaughtAtCycleBoundary ==
    last.op \in {"maybe_optimize", "before_request"} => last.info # "raised"

----------------------------------------------------------------------------
(* Middleware reordering *)

\* AdaptiveOptimizer.run_optimization_cycle, called directly
RunOptimizationCycleCall ==
    \E r \in {RunOptimizationCycle(optimizer, analyzer, now)} :
    /\ optimizer.optimization_count < MaxCycles
    /\ optimizer' = r.optimizer
    /\ analyzer' = r.analyzer
    /\ last' = Call("run_optimization_cycle", <<>>, <<>>, None, -1, None,
                    IF r.raised THEN "raised" ELSE "cycle")
    /\ UNCHANGED <<hostVars, now, cacheVars, codepathVars, recency, calls>>

\* three middleware, each of them called once; the optimizer is constructed
\* with reorder_threshold = 0.5, so that an order of three can differ from
\* the current one by less (1/3) and by more (2/3) than the threshold
ReorderNames == <<"A", "B", "C">>
ReorderThresholdHalf == Rat(1, 2)

InitReorder ==
    /\ now = 0
    /\ cache = <<>>
    /\ hits = 0
    /\ misses = 0
    /\ memoized_routes = {}
    /\ preencoded_routes = {}
    /\ route_ttls = <<>>
    /\ cache_bypasses = 0
    /\ cp_total_requests = 0
    /\ analyzer = RecordMiddleware(RecordMiddleware(RecordMiddleware(NewAnalyzer,
                        ReorderNames[1], 1, FALSE), ReorderNames[2], 1, FALSE),
                        ReorderNames[3], 1, FALSE)
    /\ optimizer = [NewOptimizer EXCEPT !.reorder_threshold = ReorderThresholdHalf]
    /\ last = NoCall
    /\ recency = <<>>
    /\ calls = {}
    /\ threads = NoThreads
    /\ locks = NoLocks
    /\ config = NoConfig
    /\ encoder = NewEncoder
    /\ predictor = NewPredictor

NextReorder ==
    \/ Tick
    \/ \E i \in 1..Len(ReorderNames), run \in MiddlewareRuns :
          RecordMiddlewareUpTo(Len(ReorderNames) + MaxMiddlewareCalls, ReorderNames[i],
                               run[1], run[2])
    \/ RunOptimizationCycleCall

SpecReorder == InitReorder /\ [][NextReorder]_vars

\* the names of the middleware in the order of their scores
NamesOf(mws) == [i \in 1..Len(mws) |-> mws[i].name]
ScoredOrder(mws) == NamesOf(SortByScore(mws))

\* the largest distance between the place of a name in the one order and its
\* place in the other, a name the old order lacks counting for none
Displacement(old_order, new_order) ==
    Max({0} \cup {Abs(i - j) : <<i, j>> \in
            {ij \in (1..Len(new_order)) \X (1..Len(old_order)) :
                new_order[ij[1]] = old_order[ij[2]]}})

\* the types of the actions the step has logged
LoggedTypes(log, log1) ==
    {log1[k].actions[a].type : <<k, a>> \in
        {ka \in ((Len(log) + 1)..Len(log1)) \X (1..4) : ka[2] <= Len(log1[ka[1]].actions)}}

(* C11: when a cycle computes, for two or more middleware, an order that     *)
(* differs from the current optimal order, and the largest displacement of   *)
(* a middleware divided by the number of middleware is below                 *)
(* reorder_threshold, the optimal order stays as it is and the cycle logs no *)
(* middleware action; when it is at or above the threshold the computed      *)
(* order becomes the optimal order and a middleware_reorder action is logged.*)
C11_ReorderHysteresis ==
    [][\A new_order \in {ScoredOrder(analyzer'.middleware)} :
       (/\ last'.op = "run_optimization_cycle" /\ last'.info = "cycle"
        /\ optimizer.optimal_mw_order # NoOrder
        /\ Len(new_order) >= 2
        /\ new_order # optimizer.optimal_mw_order)
        => IF RatLess(Rat(Displacement(optimizer.optimal_mw_order, new_order), Len(new_order)),
                      optimizer.reorder_threshold)
           THEN /\ optimizer'.optimal_mw_order = optimizer.optimal_mw_order
                /\ LoggedTypes(optimizer.evolution_log, optimizer'.evolution_log)
                      \cap {"middleware_reorder", "middleware_initial_order"} = {}
           ELSE /\ optimizer'.optimal_mw_order = new_order
                /\ "middleware_reorder"
                      \in LoggedTypes(optimizer.evolution_log, optimizer'.evolution_log)]_vars

\* a cycle that has kept the order, a differing order of a shift below the
\* threshold having been computed, after a cycle that has replaced the order
C11_Witness ==
    /\ last.op = "run_optimization_cycle" /\ last.info = "cycle"
    /\ optimizer.optimal_mw_order # NoOrder
    /\ ScoredOrder(analyzer.middleware) # optimizer.optimal_mw_order
    /\ ~optimizer.mw_order_changed
    /\ \E k \in 1..Len(optimizer.evolution_log) :
          \E a \in 1..Len(optimizer.evolution_log[k].actions) :
              optimizer.evolution_log[k].actions[a].type = "middleware_reorder"

----------------------------------------------------------------------------
(* Hot-route promotion *)

NextPromotion ==
    \/ Tick
    \/ \E rq \in OptimizerRequests : RecordRequestCall(rq[1], rq[2], rq[3], rq[4])
    \/ RunOptimizationCycleCall

SpecPromotion == Init /\ [][NextPromotion]_vars

\* the derived statistics of the routes, which the promotion step reads
SnapshotOf(an) ==
    [i \in 1..Len(an.routes) |->
        <<an.routes[i].method, an.routes[i].path, an.routes[i].heat_score>>]

(* C12: a cycle that directly follows another one, no request having been    *)
(* recorded and the clock not having advanced in between, leaves the hot set *)
(* as it is and logs no route_promote and no route_demote action; and so     *)
(* does every cycle that finds the hot set to be the routes of heat above    *)
(* 0.1 of the snapshot it reads, whatever was recorded since that snapshot   *)
(* was computed.                                                             *)
C12_PromotionIdempotent ==
    [][(/\ last'.op = "run_optimization_cycle" /\ last'.info = "cycle"
        /\ optimizer.optimization_count >= 1
        /\ \/ last.op = "run_optimization_cycle" /\ last.info = "cycle"
           \/ /\ SnapshotOf(analyzer') = SnapshotOf(analyzer)
              /\ HotKeys(optimizer.hot_route_cache) = HotNow(analyzer))
        => /\ HotKeys(optimizer'.hot_route_cache) = HotKeys(optimizer.hot_route_cache)
           /\ optimizer'.hot_route_cache = optimizer.hot_route_cache
           /\ LoggedTypes(optimizer.evolution_log, optimizer'.evolution_log)
                 \cap {"route_promote", "route_demote"} = {}]_vars

\* a second cycle on the same snapshot, with a hot route and a route that is
\* not hot, the first cycle having logged a promotion
C12_Witness ==
    /\ last.op = "run_optimization_cycle" /\ last.info = "cycle"
    /\ optimizer.optimization_count >= 2
    /\ Len(optimizer.evolution_log) = 1
    /\ optimizer.evolution_log[1].cycle < optimizer.optimization_count
    /\ optimizer.hot_route_cache # <<>>
    /\ Len(analyzer.routes) > Len(optimizer.hot_route_cache)

----------------------------------------------------------------------------
(* Heat scores *)

\* latencies in centiseconds: none, three seconds, and four seconds below zero
\* (record_request takes the number it is given)
HeatLatencies == {0, 300, -400}

NextHeat ==
    \/ Tick
    \/ \E latency \in HeatLatencies, status_code \in {200, 500} :
          RecordRequestCall("GET", PathX, latency, status_code)
    \/ GetHotRoutesCall(1)

SpecHeat == Init /\ [][NextHeat]_vars

(* C13: the heat score of every route is at least 0 and at most 1.           *)
C13_HeatScoreInUnitInterval ==
    \A i \in 1..Len(analyzer.routes) :
        /\ ~RatLess(analyzer.routes[i].heat_score, Zero)
        /\ ~RatLess(One, analyzer.routes[i].heat_score)

----------------------------------------------------------------------------
(* Eviction and expiry *)

(* C17: a put evicts an entry that has not expired only when no expired      *)
(* entry is left in the cache: the expired entries go first.                 *)
C17_ExpiredEvictedFirst ==
    [][last'.op = "put" =>
        \A i \in 1..Len(cache) :
            (cache[i].key \notin KeysOf(cache') /\ ~(now > cache[i].expires_at))
                => \A j \in 1..Len(cache') : ~(now > cache'[j].expires_at)]_vars

----------------------------------------------------------------------------
(* The intelligence report *)

\* IntelligenceReporter.generate_report: the sections read the analyzer through
\* summary, get_hot_routes, get_slow_routes, get_error_prone_routes,
\* get_middleware_metrics, each of which begins with maybe_refresh; the
\* optimizer, the predictor and the code path optimizer are read through
\* getters that assign nothing
GenerateReport(an, t) == MaybeRefresh(an, t)

\* SARE.report
ReportCall ==
    \E r \in {GenerateReport(analyzer, now)} :
    /\ analyzer' = r.analyzer
    /\ last' = Call("report", <<>>, <<>>, None, -1, None,
                    IF r.raised THEN "raised" ELSE "")
    /\ UNCHANGED <<hostVars, now, cacheVars, codepathVars, optimizer, recency, calls>>

NextReport ==
    \/ Tick
    \/ \E rq \in TrafficRequests, status_code \in Statuses :
          RecordRequestCall(rq[1], rq[2], 1, status_code)
    \/ ReportCall

SpecReport == Init /\ [][NextReport]_vars

(* C18: a call of report changes no state of the analyzer, the optimizer or  *)
(* the code path optimizer.                                                  *)
C18_ReportReadOnly ==
    [][last'.op = "report" =>
        /\ analyzer' = analyzer
        /\ optimizer' = optimizer
        /\ UNCHANGED <<cacheVars, codepathVars>>]_vars

----------------------------------------------------------------------------
(* Auto-memoization *)

\* n successful record_request calls for one route, all at time t
RECURSIVE RecordMany(_, _, _, _, _)
RecordMany(an, method, path_pattern, n, t) ==
    IF n = 0 THEN an
    ELSE IF n = 1 THEN RecordRequest(an, method, path_pattern, 1, 200, t)
    ELSE CHOOSE an2 \in {RecordMany(an1, method, path_pattern, n - (n \div 2), t) :
                            an1 \in {RecordMany(an, method, path_pattern, n \div 2, t)}} : TRUE

\* an engine that has served traffic: GET /x two requests short of the
\* minimum, POST /z and GET /u/{id} at the minimum, the requests of
\* GET /u/{id} older than the window of the request rate
SeasonedAnalyzer ==
    RecordMany(
        RecordMany(
            RecordMany(NewAnalyzer, "GET", PatternU, MinMemoizeRequests, 0 - (RpsWindow + MaxTime + 1)),
            "POST", PathZ, MinMemoizeRequests, 0),
        "GET", PathX, MinMemoizeRequests - 2, 0)

InitAutoMemoize ==
    /\ now = 0
    /\ cache = <<>>
    /\ hits = 0
    /\ misses = 0
    /\ memoized_routes = {}
    /\ preencoded_routes = {}
    /\ route_ttls = <<>>
    /\ cache_bypasses = 0
    /\ cp_total_requests = 0
    /\ analyzer = SeasonedAnalyzer
    /\ optimizer = NewOptimizer
    /\ last = NoCall
    /\ recency = <<>>
    /\ calls = {}
    /\ threads = NoThreads
    /\ locks = NoLocks
    /\ config = NoConfig
    /\ encoder = NewEncoder
    /\ predictor = NewPredictor

NextAutoMemoize ==
    \/ Tick
    \/ \E route_id \in {RouteId("GET", PathX), RouteId("POST", PathZ)} :
          EnableMemoization(route_id, NoTtl)
    \/ \E status_code \in Statuses : RecordRequestCall("GET", PathX, 1, status_code)
    \/ BeforeRequestCall("GET", PathX, QueryEmpty)

SpecAutoMemoize == InitAutoMemoize /\ [][NextAutoMemoize]_vars

\* the route the analyzer tracks under a route id meets the conditions of
\* auto-memoization
Qualifies(an, route_id) ==
    \E i \in 1..Len(an.routes) :
        /\ RouteId(an.routes[i].method, an.routes[i].path) = route_id
        /\ an.routes[i].method = "GET"
        /\ ~RatLess(an.routes[i].requests_per_second, AutoMemoizeRpsThreshold)
        /\ ~RatLess(AutoMemoizeErrorThreshold, an.routes[i].error_rate)
        /\ an.routes[i].total_requests >= MinMemoizeRequests

(* C19: before_request adds a route to memoized_routes only if it is a GET   *)
(* route whose request rate, error rate and request count meet the           *)
(* thresholds at that moment; it enables pre-encoding for exactly the routes *)
(* it newly memoizes, so a route memoized before is not enabled again.       *)
C19_AutoMemoizePolicy ==
    [][last'.op = "before_request" =>
        /\ \A route_id \in memoized_routes' \ memoized_routes : Qualifies(analyzer', route_id)
        /\ preencoded_routes' \ preencoded_routes = memoized_routes' \ memoized_routes
        /\ memoized_routes \subseteq memoized_routes'
        /\ route_ttls' = route_ttls]_vars

\* before_request has just memoized and pre-encoded GET /x, while POST /z and
\* GET /u/{id}, tracked with as many requests, are not memoized
C19_Witness ==
    /\ last.op = "before_request"
    /\ memoized_routes = {RouteId("GET", PathX)}
    /\ preencoded_routes = {RouteId("GET", PathX)}
    /\ \E i \in 1..Len(analyzer.routes) :
          /\ analyzer.routes[i].method = "POST"
          /\ analyzer.routes[i].total_requests >= MinMemoizeRequests
          /\ ~RatLess(analyzer.routes[i].requests_per_second, AutoMemoizeRpsThreshold)
    /\ \E i \in 1..Len(analyzer.routes) :
          /\ analyzer.routes[i].path = PatternU
          /\ analyzer.routes[i].total_requests >= MinMemoizeRequests
          /\ RatLess(analyzer.routes[i].requests_per_second, AutoMemoizeRpsThreshold)

----------------------------------------------------------------------------
(* Construction *)

\* the values a constructor is called with: a negative one, zero, the default
Intervals == {-1, 0, 10}            \* optimize_interval
CacheSizes == {-1, 0, 500}          \* cache_max_size, max_size
CacheTtls == {-1, 0, 30}            \* cache_default_ttl, default_ttl
Slots == {-1, 0, 20}                \* hot_route_slots
Thresholds == {Rat(-1, 2), Rat(15, 100), Rat(3, 2)}     \* reorder_threshold

\* ResponseCache.__init__: the attributes of the instance
NewResponseCache(max_size, default_ttl) ==
    [max_size |-> max_size, default_ttl |-> default_ttl]

\* AdaptiveOptimizer.__init__: the configured attributes of the instance
NewAdaptiveOptimizer(optimize_interval, hot_route_slots, reorder_threshold) ==
    [optimize_interval |-> optimize_interval, hot_route_slots |-> hot_route_slots,
     reorder_threshold |-> reorder_threshold]

\* ResponseCache(max_size, default_ttl)
ConstructResponseCache(max_size, default_ttl) ==
    /\ config' = [kind |-> "ResponseCache", raised |-> FALSE,
                  cache |-> NewResponseCache(max_size, default_ttl)]
    /\ last' = Quiet("ResponseCache")
    /\ UNCHANGED <<now, cacheVars, codepathVars, engineVars, recency, threads, locks, sideVars>>

\* AdaptiveOptimizer(analyzer, optimize_interval, hot_route_slots, reorder_threshold)
ConstructAdaptiveOptimizer(optimize_interval, hot_route_slots, reorder_threshold) ==
    /\ config' = [kind |-> "AdaptiveOptimizer", raised |-> FALSE,
                  optimizer |-> NewAdaptiveOptimizer(optimize_interval, hot_route_slots,
                                                     reorder_threshold)]
    /\ last' = Quiet("AdaptiveOptimizer")
    /\ UNCHANGED <<now, cacheVars, codepathVars, engineVars, recency, threads, locks, sideVars>>

\* SARE(optimize_interval, cache_max_size, cache_default_ttl, hot_route_slots):
\* the optimizer is built with the default reorder_threshold
ConstructSARE(optimize_interval, cache_max_size, cache_default_ttl, hot_route_slots) ==
    /\ config' = [kind |-> "SARE", raised |-> FALSE,
                  optimizer |-> NewAdaptiveOptimizer(optimize_interval, hot_route_slots,
                                                     Rat(15, 100)),
                  cache |-> NewResponseCache(cache_max_size, cache_default_ttl)]
    /\ last' = Quiet("SARE")
    /\ UNCHANGED <<now, cacheVars, codepathVars, engineVars, recency, threads, locks, sideVars>>

NextConstruct ==
    \/ \E max_size \in CacheSizes, default_ttl \in CacheTtls :
          ConstructResponseCache(max_size, default_ttl)
    \/ \E optimize_interval \in Intervals, hot_route_slots \in Slots,
          reorder_threshold \in Thresholds :
          ConstructAdaptiveOptimizer(optimize_interval, hot_route_slots, reorder_threshold)
    \/ \E optimize_interval \in Intervals, cache_max_size \in CacheSizes,
          cache_default_ttl \in CacheTtls, hot_route_slots \in Slots :
          ConstructSARE(optimize_interval, cache_max_size, cache_default_ttl, hot_route_slots)

SpecConstruct == Init /\ [][NextConstruct]_vars

(* C20: a constructor call that produced an instance was given valid values: *)
(* no negative interval, cache size, ttl or slot count, and a reorder        *)
(* threshold within [0, 1].                                                  *)
C20_InvalidConfigRejected ==
    /\ config.kind \in {"ResponseCache", "SARE"} /\ ~config.raised
          => config.cache.max_size >= 0 /\ config.cache.default_ttl >= 0
    /\ config.kind \in {"AdaptiveOptimizer", "SARE"} /\ ~config.raised
          => /\ config.optimizer.optimize_interval >= 0
             /\ config.optimizer.hot_route_slots >= 0
             /\ ~RatLess(config.optimizer.reorder_threshold, Zero)
             /\ ~RatLess(One, config.optimizer.reorder_threshold)

----------------------------------------------------------------------------
(* record_request on several threads *)

\* A thread inside record_request: the position, the arguments, the value the
\* pending += has read, and whether the RouteMetrics object the thread holds
\* has been replaced in _routes by another thread since it was looked up
InRecord(pc, method, path_pattern, latency, status_code, reg, detached) ==
    [pc |-> pc, method |-> method, path |-> path_pattern, latency |-> latency,
     status_code |-> status_code, reg |-> reg, detached |-> detached]

At(t, pc) == [threads EXCEPT ![t].pc = pc]

\* the index in _routes of the key the thread records under
RouteOf(t) == RouteIndex(analyzer.routes, threads[t].method, threads[t].path)

\* record_request is entered: key = (method.upper(), path_pattern)
RecordRequestBegin(t, method, path_pattern, latency, status_code) ==
    /\ threads[t].pc = "idle"
    /\ Cardinality(calls) < MaxRequests
    /\ threads' = [threads EXCEPT ![t] = InRecord("check", Upper(method), path_pattern, latency,
                                                   status_code, 0, FALSE)]
    /\ calls' = Logged(calls, method, path_pattern, status_code)
    /\ UNCHANGED <<now, cacheVars, codepathVars, analyzer, optimizer, last, recency, locks, config, sideVars>>

\* if key not in self._routes
RecordRequestCheck(t) ==
    /\ threads[t].pc = "check"
    /\ threads' = At(t, IF RouteOf(t) = 0 THEN "create" ELSE "lookup")
    /\ UNCHANGED <<now, cacheVars, codepathVars, engineVars, last, recency, locks, config, sideVars>>

\* self._routes[key] = RouteMetrics(...): a thread that holds the object the
\* key was bound to now holds an object that is in _routes no more
RecordRequestCreate(t) ==
    /\ threads[t].pc = "create"
    /\ analyzer' = [analyzer EXCEPT !.routes =
                        IF RouteOf(t) = 0
                        THEN Append(@, NewRouteMetrics(threads[t].method, threads[t].path))
                        ELSE [@ EXCEPT ![RouteOf(t)] =
                                  NewRouteMetrics(threads[t].method, threads[t].path)]]
    /\ threads' = [u \in Threads |->
                      IF u = t THEN [threads[t] EXCEPT !.pc = "lookup"]
                      ELSE IF /\ threads[u].pc \in {"append", "read_count", "write_count"}
                              /\ threads[u].method = threads[t].method
                              /\ threads[u].path = threads[t].path
                           THEN [threads[u] EXCEPT !.detached = TRUE]
                           ELSE threads[u]]
    /\ UNCHANGED <<now, cacheVars, codepathVars, optimizer, calls, last, recency, locks, config, sideVars>>

\* self._routes[key], the object record is then called on
RecordRequestLookup(t) ==
    /\ threads[t].pc = "lookup"
    /\ threads' = [threads EXCEPT ![t].pc = "append", ![t].detached = FALSE]
    /\ UNCHANGED <<now, cacheVars, codepathVars, engineVars, last, recency, locks, config, sideVars>>

\* RouteMetrics.record: self.latencies.append(latency); self.timestamps.append(now)
RouteRecordAppend(t) ==
    /\ threads[t].pc = "append"
    /\ analyzer' = IF threads[t].detached THEN analyzer
                   ELSE [analyzer EXCEPT
                            !.routes[RouteOf(t)].latencies =
                                DequeAppend(@, threads[t].latency, WindowSize),
                            !.routes[RouteOf(t)].timestamps = DequeAppend(@, now, WindowSize)]
    /\ threads' = At(t, "read_count")
    /\ UNCHANGED <<now, cacheVars, codepathVars, optimizer, calls, last, recency, locks, config, sideVars>>

\* RouteMetrics.record: self.total_requests += 1, the read
RouteRecordRead(t) ==
    /\ threads[t].pc = "read_count"
    /\ threads' = [threads EXCEPT ![t].pc = "write_count",
                                  ![t].reg = IF threads[t].detached THEN 0
                                             ELSE analyzer.routes[RouteOf(t)].total_requests]
    /\ UNCHANGED <<now, cacheVars, codepathVars, engineVars, last, recency, locks, config, sideVars>>

\* RouteMetrics.record: self.total_requests += 1, the write; the error counts
RouteRecordWrite(t) ==
    /\ threads[t].pc = "write_count"
    /\ analyzer' = IF threads[t].detached THEN analyzer
                   ELSE [analyzer EXCEPT
                            !.routes[RouteOf(t)].total_requests = threads[t].reg + 1,
                            !.routes[RouteOf(t)].total_errors =
                                IF threads[t].status_code >= 400 THEN @ + 1 ELSE @,
                            !.routes[RouteOf(t)].total_5xx =
                                IF threads[t].status_code >= 500 THEN @ + 1 ELSE @]
    /\ threads' = At(t, "read_global")
    /\ UNCHANGED <<now, cacheVars, codepathVars, optimizer, calls, last, recency, locks, config, sideVars>>

\* self._global_timestamps.append(time.monotonic()); self.total_requests += 1, the read
RecordRequestRead(t) ==
    /\ threads[t].pc = "read_global"
    /\ analyzer' = [analyzer EXCEPT !.global_timestamps = DequeAppend(@, now, GlobalWindow)]
    /\ threads' = [threads EXCEPT ![t].pc = "write_global", ![t].reg = analyzer.total_requests]
    /\ UNCHANGED <<now, cacheVars, codepathVars, optimizer, calls, last, recency, locks, config, sideVars>>

\* self.total_requests += 1, the write; self.total_errors; record_request returns
RecordRequestWrite(t) ==
    /\ threads[t].pc = "write_global"
    /\ analyzer' = [analyzer EXCEPT !.total_requests = threads[t].reg + 1,
                                    !.total_errors = IF threads[t].status_code >= 400
                                                     THEN @ + 1 ELSE @]
    /\ threads' = [threads EXCEPT ![t] = Idle]
    /\ last' = Quiet("record_request")
    /\ UNCHANGED <<now, cacheVars, codepathVars, optimizer, calls, recency, locks, config, sideVars>>

NextRecordThreads ==
    \/ Tick
    \/ \E t \in Threads, rq \in OptimizerRequests :
          RecordRequestBegin(t, rq[1], rq[2], rq[3], rq[4])
    \/ \E t \in Threads : RecordRequestCheck(t)
    \/ \E t \in Threads : RecordRequestCreate(t)
    \/ \E t \in Threads : RecordRequestLookup(t)
    \/ \E t \in Threads : RouteRecordAppend(t)
    \/ \E t \in Threads : RouteRecordRead(t)
    \/ \E t \in Threads : RouteRecordWrite(t)
    \/ \E t \in Threads : RecordRequestRead(t)
    \/ \E t \in Threads : RecordRequestWrite(t)

SpecRecordThreads == Init /\ [][NextRecordThreads]_vars

(* C14: once every record_request call made on any thread has returned, the  *)
(* analyzer's total_requests is the number of calls and each route's         *)
(* RouteMetrics counts all the calls made for that route.                    *)
C14_NoLostEvents ==
    (\A t \in Threads : threads[t].pc = "idle") =>
        /\ analyzer.total_requests = Cardinality(calls)
        /\ \A c \in calls :
              \E i \in 1..Len(analyzer.routes) :
                  /\ analyzer.routes[i].method = Upper(c.method)
                  /\ analyzer.routes[i].path = c.path
                  /\ analyzer.routes[i].total_requests =
                         Cardinality(CallsOf(Upper(c.method), c.path))

----------------------------------------------------------------------------
(* Snapshot refreshes and optimization cycles on several threads *)

\* maybe_refresh, as get_hot_routes and the other queries call it: the
\* interval has elapsed, _refresh_snapshots is entered
MaybeRefreshCheck(t) ==
    /\ threads[t].pc = "idle"
    /\ ~(now - analyzer.last_snapshot < SnapshotInterval)
    /\ threads' = [threads EXCEPT ![t] = [pc |-> "refresh_wait"]]
    /\ UNCHANGED <<now, cacheVars, codepathVars, engineVars, last, recency, locks, config, sideVars>>

\* _refresh_snapshots: with self._lock
RefreshEnter(t) ==
    /\ threads[t].pc = "refresh_wait"
    /\ locks.analyzer = 0
    /\ locks' = [locks EXCEPT !.analyzer = t]
    /\ threads' = At(t, "refreshing")
    /\ UNCHANGED <<now, cacheVars, codepathVars, engineVars, last, recency, config, sideVars>>

\* _refresh_snapshots: the body, and the lock released on leaving the with block
RefreshExit(t) ==
    \E r \in {RefreshSnapshots(analyzer, now)} :
    /\ threads[t].pc = "refreshing"
    /\ analyzer' = r.analyzer
    /\ locks' = [locks EXCEPT !.analyzer = 0]
    /\ threads' = [threads EXCEPT ![t] = Idle]
    /\ last' = Call("get_hot_routes", <<>>, <<>>, None, -1, None,
                    IF r.raised THEN "raised" ELSE "")
    /\ UNCHANGED <<now, cacheVars, codepathVars, optimizer, calls, recency, config, sideVars>>

\* maybe_optimize: the interval has elapsed, run_optimization_cycle is entered
MaybeOptimizeCheck(t) ==
    /\ threads[t].pc = "idle"
    /\ ~TooEarly(now, optimizer.last_optimize)
    /\ optimizer.optimization_count < MaxCycles
    /\ threads' = [threads EXCEPT ![t] = [pc |-> "cycle_wait"]]
    /\ UNCHANGED <<now, cacheVars, codepathVars, engineVars, last, recency, locks, config, sideVars>>

\* run_optimization_cycle: with self._lock; _last_optimize and the count are set
CycleEnter(t) ==
    /\ threads[t].pc = "cycle_wait"
    /\ locks.optimizer = 0
    /\ locks' = [locks EXCEPT !.optimizer = t]
    /\ optimizer' = [optimizer EXCEPT !.last_optimize = now, !.optimization_count = @ + 1]
    /\ threads' = At(t, "cycle")
    /\ UNCHANGED <<now, cacheVars, codepathVars, analyzer, calls, last, recency, config, sideVars>>

\* run_optimization_cycle: the two optimizations, the log, and the lock
\* released.  The queries the optimizations make of the analyzer refresh the
\* snapshots under the analyzer's lock when the refresh is due.
CycleExit(t) ==
    \E r \in {CycleHotRoutes(optimizer,
                             IF RouteCachingEnabled
                             THEN GetHotRoutes(analyzer, HotRouteSlots, now)
                             ELSE [analyzer |-> analyzer, raised |-> FALSE, ret |-> <<>>],
                             now)} :
    /\ threads[t].pc = "cycle"
    /\ (now - analyzer.last_snapshot < SnapshotInterval) \/ locks.analyzer = 0
    /\ optimizer' = r.optimizer
    /\ analyzer' = r.analyzer
    /\ locks' = [locks EXCEPT !.optimizer = 0]
    /\ threads' = [threads EXCEPT ![t] = Idle]
    /\ last' = Call("run_optimization_cycle", <<>>, <<>>, None, -1, None,
                    IF r.raised THEN "raised" ELSE "cycle")
    /\ UNCHANGED <<now, cacheVars, codepathVars, calls, recency, config, sideVars>>

NextLocks ==
    \/ Tick
    \/ RecordRequestCall("GET", PathX, 1, 200)
    \/ \E t \in Threads : MaybeRefreshCheck(t)
    \/ \E t \in Threads : RefreshEnter(t)
    \/ \E t \in Threads : RefreshExit(t)
    \/ \E t \in Threads : MaybeOptimizeCheck(t)
    \/ \E t \in Threads : CycleEnter(t)
    \/ \E t \in Threads : CycleExit(t)

SpecLocks == Init /\ [][NextLocks]_vars

(* C15: while a thread recomputes the snapshots, no other thread recomputes  *)
(* them and no other thread is inside an optimization cycle.                 *)
C15_RefreshAlone ==
    \A t \in Threads, u \in Threads :
        (t # u /\ threads[t].pc = "refreshing") => threads[u].pc \notin {"refreshing", "cycle"}

----------------------------------------------------------------------------
(* ResponseCache on several threads *)

\* a call that ended in an exception; of the calls the threads make, last
\* keeps the latest that failed
Failed(op, key, error) == Call(op, key, <<>>, None, -1, None, error)

\* get: if key not in self._cache: the miss is counted and None returned, or
\* the key is there and the entry is read next
GetCheck(t, key) ==
    /\ threads[t].pc = "idle"
    /\ hits + misses < MaxCount
    /\ IF Has(cache, key)
       THEN /\ threads' = [threads EXCEPT ![t] = [pc |-> "get_read", key |-> key]]
            /\ UNCHANGED misses
       ELSE /\ misses' = misses + 1
            /\ UNCHANGED threads
    /\ UNCHANGED <<now, cache, hits, codepathVars, engineVars, last, recency, locks, config, sideVars>>

\* get: data, expires_at = self._cache[key]
GetRead(t) ==
    /\ threads[t].pc = "get_read"
    /\ IF Has(cache, threads[t].key)
       THEN /\ threads' = [threads EXCEPT ![t] =
                              [pc |-> "get_finish", key |-> threads[t].key,
                               expires_at |-> Entry(cache, threads[t].key).expires_at]]
            /\ UNCHANGED last
       ELSE /\ threads' = [threads EXCEPT ![t] = Idle]
            /\ last' = Failed("get", threads[t].key, "KeyError")
    /\ UNCHANGED <<now, cacheVars, codepathVars, engineVars, recency, locks, config, sideVars>>

\* get: the expired entry deleted and the miss counted, or the entry moved
\* to the end and the hit counted; del and move_to_end raise KeyError for a
\* key that is there no more
GetFinish(t) ==
    /\ threads[t].pc = "get_finish"
    /\ threads' = [threads EXCEPT ![t] = Idle]
    /\ IF ~Has(cache, threads[t].key)
       THEN /\ last' = Failed("get", threads[t].key, "KeyError")
            /\ UNCHANGED <<cacheVars, recency>>
       ELSE IF IsExpired(now, threads[t].expires_at)
       THEN /\ cache' = Remove(cache, threads[t].key)
            /\ misses' = misses + 1
            /\ recency' = Restrict(recency, KeysOf(cache'))
            /\ UNCHANGED <<hits, last>>
       ELSE /\ cache' = MoveToEnd(cache, threads[t].key)
            /\ hits' = hits + 1
            /\ recency' = Touch(recency, threads[t].key)
            /\ UNCHANGED <<misses, last>>
    /\ UNCHANGED <<now, codepathVars, engineVars, locks, config, sideVars>>

\* put: the entry moved to the end if there, and assigned
PutStore(t, key, data, ttl) ==
    /\ threads[t].pc = "idle"
    /\ cache' = SetItem(IF Has(cache, key) THEN MoveToEnd(cache, key) ELSE cache,
                        key, data, now + ttl, <<>>)
    /\ recency' = Touch(recency, key)
    /\ threads' = [threads EXCEPT ![t] = [pc |-> "put_evict", key |-> key]]
    /\ UNCHANGED <<now, hits, misses, codepathVars, engineVars, last, locks, config, sideVars>>

\* put: while len(self._cache) > self.max_size
PutEvictCheck(t) ==
    /\ threads[t].pc = "put_evict"
    /\ threads' = IF Len(cache) > MaxSize THEN At(t, "put_pop")
                   ELSE [threads EXCEPT ![t] = Idle]
    /\ UNCHANGED <<now, cacheVars, codepathVars, engineVars, last, recency, locks, config, sideVars>>

\* put: self._cache.popitem(last=False), KeyError on an empty dict
PutPop(t) ==
    /\ threads[t].pc = "put_pop"
    /\ IF cache = <<>>
       THEN /\ threads' = [threads EXCEPT ![t] = Idle]
            /\ last' = Failed("put", threads[t].key, "KeyError")
            /\ UNCHANGED <<cache, recency>>
       ELSE /\ threads' = At(t, "put_evict")
            /\ cache' = Tail(cache)
            /\ recency' = Restrict(recency, KeysOf(cache'))
            /\ UNCHANGED last
    /\ UNCHANGED <<now, hits, misses, codepathVars, engineVars, locks, config, sideVars>>

\* the keys of the expired entries, in the cache's order
ExpiredKeys(c, t) ==
    [i \in 1..Len(SelectSeq(c, LAMBDA e : IsExpired(t, e.expires_at))) |->
        SelectSeq(c, LAMBDA e : IsExpired(t, e.expires_at))[i].key]

\* evict_expired: expired = [k for k, (_, exp) in self._cache.items() if now > exp]
EvictCollect(t) ==
    /\ threads[t].pc = "idle"
    /\ threads' = [threads EXCEPT ![t] = [pc |-> "evict_del", keys |-> ExpiredKeys(cache, now)]]
    /\ UNCHANGED <<now, cacheVars, codepathVars, engineVars, last, recency, locks, config, sideVars>>

\* evict_expired: for k in expired: del self._cache[k]
EvictDelete(t) ==
    /\ threads[t].pc = "evict_del"
    /\ IF threads[t].keys = <<>>
       THEN /\ threads' = [threads EXCEPT ![t] = Idle]
            /\ UNCHANGED <<cache, last, recency>>
       ELSE IF ~Has(cache, Head(threads[t].keys))
       THEN /\ threads' = [threads EXCEPT ![t] = Idle]
            /\ last' = Failed("evict_expired", Head(threads[t].keys), "KeyError")
            /\ UNCHANGED <<cache, recency>>
       ELSE /\ threads' = [threads EXCEPT ![t].keys = Tail(@)]
            /\ cache' = Remove(cache, Head(threads[t].keys))
            /\ recency' = Restrict(recency, KeysOf(cache'))
            /\ UNCHANGED last
    /\ UNCHANGED <<now, hits, misses, codepathVars, engineVars, locks, config, sideVars>>

\* the key the threads look up and invalidate
ThreadKeys == {EntryKey(RouteId("GET", PathX), build_cache_key("GET", PathX, QueryEmpty))}

\* invalidate is one dict.pop(key, None)
NextCacheThreads ==
    \/ Tick
    \/ \E t \in Threads, key \in ThreadKeys : GetCheck(t, key)
    \/ \E t \in Threads : GetRead(t)
    \/ \E t \in Threads : GetFinish(t)
    \/ \E t \in Threads, key \in CacheKeys, ttl \in Ttls :
          PutStore(t, key, [body |-> "b1", status_code |-> 200], ttl)
    \/ \E t \in Threads : PutEvictCheck(t)
    \/ \E t \in Threads : PutPop(t)
    \/ \E key \in ThreadKeys : Invalidate(key)
    \/ \E t \in Threads : EvictCollect(t)
    \/ \E t \in Threads : EvictDelete(t)

SpecCacheThreads == Init /\ [][NextCacheThreads]_vars

(* C16: no call on the cache ends in an exception, and once every call has   *)
(* returned the cache holds max_size entries at most.                        *)
C16_NoCallFails ==
    /\ last.info # "KeyError"
    /\ (\A t \in Threads : threads[t].pc = "idle") => Len(cache) <= MaxSize

----------------------------------------------------------------------------
(* JSONPreEncoder *)

\* Text is a sequence of characters.  A dict is a sequence of <<key, value>>
\* pairs in insertion order; a key is one character; a value carries its
\* Python type.
Quote == "\""
Backslash == "\\"
Newline == "\n"
DigitChars == <<"0", "1", "2", "3", "4", "5", "6", "7", "8", "9">>

PyStr(chars) == [type |-> "str", val |-> chars]
PyInt(n) == [type |-> "int", val |-> n]
PyBool(b) == [type |-> "bool", val |-> b]
PyNone == [type |-> "NoneType"]
\* a float with decimal digits, the digits after the point as characters
PyFloat(whole, frac) == [type |-> "float", whole |-> whole, frac |-> frac]
PyNan == [type |-> "float", nan |-> TRUE]

MaxTemplates == 100

KeysOfDict(data) == {data[i][1] : i \in 1..Len(data)}

\* data.get(key)
DataGet(data, key) ==
    IF key \in KeysOfDict(data)
    THEN data[CHOOSE i \in 1..Len(data) : data[i][1] = key][2]
    ELSE PyNone

\* the strings used as keys, in the order of Python's str comparison; all of
\* them are one character long but the one written out in KeyText
KeyChars == <<"a", "a:int|b", "b", "k", "m">>

\* the characters of a key
KeyText(key) ==
    IF key = "a:int|b" THEN <<"a", ":", "i", "n", "t", "|", "b">> ELSE <<key>>

\* the characters of type(v).__name__
TypeText(type) ==
    CASE type = "str" -> <<"s", "t", "r">>
      [] type = "int" -> <<"i", "n", "t">>
      [] type = "bool" -> <<"b", "o", "o", "l">>
      [] type = "float" -> <<"f", "l", "o", "a", "t">>
      [] type = "NoneType" -> <<"N", "o", "n", "e", "T", "y", "p", "e">>
CharBefore(a, b) ==
    \E i \in 1..Len(KeyChars), j \in 1..Len(KeyChars) : i < j /\ KeyChars[i] = a /\ KeyChars[j] = b

\* sorted(data.keys()): the keys are single characters
RECURSIVE SortedKeys(_)
SortedKeys(keys) ==
    IF keys = {} THEN <<>>
    ELSE LET least == CHOOSE k \in keys : \A m \in keys : k = m \/ CharBefore(k, m)
         IN  <<least>> \o SortedKeys(keys \ {least})

\* the text _fingerprint hashes: the items "key:typename" of the dict in the
\* order of their keys, joined by "|"
RECURSIVE FingerprintText(_, _)
FingerprintText(keys, data) ==
    IF keys = <<>> THEN <<>>
    ELSE KeyText(Head(keys)) \o <<":">> \o TypeText(DataGet(data, Head(keys)).type)
         \o (IF Len(keys) > 1 THEN <<"|">> ELSE <<>>) \o FingerprintText(Tail(keys), data)

\* _fingerprint: the md5 of that text, taken to be free of collisions and
\* written as the text itself
Fingerprint(data) == FingerprintText(SortedKeys(KeysOfDict(data)), data)

HasRoute(d, route_id) == \E i \in 1..Len(d) : d[i].route_id = route_id
RouteEntry(d, route_id) == d[CHOOSE i \in 1..Len(d) : d[i].route_id = route_id]
PopRoute(d, route_id) == SelectSeq(d, LAMBDA e : e.route_id # route_id)
SetRoute(d, route_id, val) ==
    IF HasRoute(d, route_id)
    THEN [i \in 1..Len(d) |-> IF d[i].route_id = route_id
                              THEN [route_id |-> route_id, val |-> val] ELSE d[i]]
    ELSE Append(d, [route_id |-> route_id, val |-> val])

\* while len(self._templates) > self.max_templates: del the oldest
RECURSIVE EvictTemplatesTo(_, _)
EvictTemplatesTo(templates, max_templates) ==
    IF Len(templates) > max_templates
    THEN EvictTemplatesTo(Tail(templates), max_templates) ELSE templates

\* learn_structure of an encoder constructed with the given max_templates
LearnStructureWith(enc, route_id, data, max_templates) ==
    IF HasRoute(enc.fingerprints, route_id)
       /\ RouteEntry(enc.fingerprints, route_id).val # Fingerprint(data)
    THEN [templates |-> PopRoute(enc.templates, route_id),
          fingerprints |-> SetRoute(enc.fingerprints, route_id, Fingerprint(data))]
    ELSE [templates |-> IF HasRoute(enc.templates, route_id) THEN enc.templates
                        ELSE EvictTemplatesTo(SetRoute(enc.templates, route_id,
                                                       SortedKeys(KeysOfDict(data))),
                                              max_templates),
          fingerprints |-> SetRoute(enc.fingerprints, route_id, Fingerprint(data))]

\* the same with the default max_templates
EvictTemplates(templates) == EvictTemplatesTo(templates, MaxTemplates)

LearnStructure(enc, route_id, data) == LearnStructureWith(enc, route_id, data, MaxTemplates)

\* str(n) of an int
RECURSIVE IntStr(_)
IntStr(n) ==
    IF n < 0 THEN <<"-">> \o IntStr(0 - n)
    ELSE IF n < 10 THEN <<DigitChars[n + 1]>>
    ELSE IntStr(n \div 10) \o <<DigitChars[(n % 10) + 1]>>

\* val.replace("\\", "\\\\").replace('"', '\\"')
RECURSIVE Escaped(_)
Escaped(chars) ==
    IF chars = <<>> THEN <<>>
    ELSE (IF Head(chars) \in {Backslash, Quote} THEN <<Backslash, Head(chars)>>
          ELSE <<Head(chars)>>) \o Escaped(Tail(chars))

\* the text fast_encode writes for a value
EncodeValue(val) ==
    CASE val.type = "NoneType" -> <<"n", "u", "l", "l">>
      [] val.type = "str" -> <<Quote>> \o Escaped(val.val) \o <<Quote>>
      [] val.type = "bool" -> IF val.val THEN <<"t", "r", "u", "e">>
                              ELSE <<"f", "a", "l", "s", "e">>
      [] val.type = "int" -> IntStr(val.val)
      [] val.type = "float" ->
            IF "nan" \in DOMAIN val THEN <<"n", "a", "n">>
            ELSE IntStr(val.whole) \o <<".">> \o val.frac

\* ",".join(parts) of '"key":value' parts
RECURSIVE EncodeParts(_, _)
EncodeParts(keys, data) ==
    IF keys = <<>> THEN <<>>
    ELSE <<Quote>> \o KeyText(Head(keys)) \o <<Quote, ":">>
         \o EncodeValue(DataGet(data, Head(keys)))
         \o (IF Len(keys) > 1 THEN <<",">> ELSE <<>>) \o EncodeParts(Tail(keys), data)

\* JSONPreEncoder.fast_encode, for a dict: the text, or None without a template
FastEncode(enc, route_id, data) ==
    IF ~HasRoute(enc.templates, route_id) THEN None
    ELSE <<"{">> \o EncodeParts(RouteEntry(enc.templates, route_id).val, data) \o <<"}">>

\* json.loads of a flat object, as RFC 8259 reads it: a string takes no raw
\* control character and only the listed escapes; a number is
\* -?digits(.digits)?; the literals are true, false and null.
ControlChars == {Newline}
ParseFail == [ok |-> FALSE]
Parsed(val, next) == [ok |-> TRUE, val |-> val, next |-> next]
IsDigit(c) == \E i \in 1..Len(DigitChars) : DigitChars[i] = c
DigitVal(c) == (CHOOSE i \in 1..Len(DigitChars) : DigitChars[i] = c) - 1
Unescape(c) == IF c = "n" THEN Newline ELSE c

\* the characters of a string from position i, up to its closing quote
RECURSIVE ParseChars(_, _, _)
ParseChars(text, i, acc) ==
    IF i > Len(text) THEN ParseFail
    ELSE IF text[i] = Quote THEN Parsed(acc, i + 1)
    ELSE IF text[i] \in ControlChars THEN ParseFail
    ELSE IF text[i] = Backslash
    THEN IF i + 1 > Len(text) \/ text[i + 1] \notin {Quote, Backslash, "/", "n"} THEN ParseFail
         ELSE ParseChars(text, i + 2, Append(acc, Unescape(text[i + 1])))
    ELSE ParseChars(text, i + 1, Append(acc, text[i]))

ParseString(text, i) ==
    IF i <= Len(text) /\ text[i] = Quote THEN ParseChars(text, i + 1, <<>>) ELSE ParseFail

\* the run of digits from position i
RECURSIVE ParseDigits(_, _, _)
ParseDigits(text, i, acc) ==
    IF i <= Len(text) /\ IsDigit(text[i]) THEN ParseDigits(text, i + 1, Append(acc, text[i]))
    ELSE Parsed(acc, i)

RECURSIVE DigitsVal(_)
DigitsVal(digits) ==
    IF digits = <<>> THEN 0
    ELSE 10 * DigitsVal(SubSeq(digits, 1, Len(digits) - 1)) + DigitVal(digits[Len(digits)])

\* an unsigned number from position i, sign being 1 or -1
ParseUnsigned(text, i, sign) ==
    LET whole == ParseDigits(text, i, <<>>)
        frac == ParseDigits(text, whole.next + 1, <<>>)
    IN  IF whole.val = <<>> \/ (Len(whole.val) > 1 /\ whole.val[1] = "0") THEN ParseFail
        ELSE IF whole.next <= Len(text) /\ text[whole.next] = "."
        THEN IF frac.val = <<>> THEN ParseFail
             ELSE Parsed(PyFloat(sign * DigitsVal(whole.val), frac.val), frac.next)
        ELSE Parsed(PyInt(sign * DigitsVal(whole.val)), whole.next)

LiteralAt(text, i, word) ==
    /\ i + Len(word) - 1 <= Len(text)
    /\ SubSeq(text, i, i + Len(word) - 1) = word

ParseValue(text, i) ==
    IF i > Len(text) THEN ParseFail
    ELSE IF text[i] = Quote
    THEN LET str == ParseString(text, i)
         IN  IF str.ok THEN Parsed(PyStr(str.val), str.next) ELSE ParseFail
    ELSE IF text[i] = "-" THEN ParseUnsigned(text, i + 1, -1)
    ELSE IF IsDigit(text[i]) THEN ParseUnsigned(text, i, 1)
    ELSE IF LiteralAt(text, i, <<"t", "r", "u", "e">>) THEN Parsed(PyBool(TRUE), i + 4)
    ELSE IF LiteralAt(text, i, <<"f", "a", "l", "s", "e">>) THEN Parsed(PyBool(FALSE), i + 5)
    ELSE IF LiteralAt(text, i, <<"n", "u", "l", "l">>) THEN Parsed(PyNone, i + 4)
    ELSE ParseFail

\* the members of an object from position i, up to its closing brace
RECURSIVE ParseMembers(_, _, _)
ParseMembers(text, i, acc) ==
    LET key == ParseString(text, i)
        val == ParseValue(text, key.next + 1)
    IN  IF ~key.ok \/ key.next > Len(text) \/ text[key.next] # ":" THEN ParseFail
        ELSE IF ~val.ok \/ val.next > Len(text) THEN ParseFail
        ELSE IF text[val.next] = "}" THEN Parsed(Append(acc, <<key.val, val.val>>), val.next + 1)
        ELSE IF text[val.next] = "," THEN ParseMembers(text, val.next + 1, Append(acc, <<key.val, val.val>>))
        ELSE ParseFail

\* json.loads(text): the pairs of the object, a key being its characters
JsonLoads(text) ==
    IF Len(text) < 2 \/ text[1] # "{" THEN ParseFail
    ELSE IF text[2] = "}" THEN (IF Len(text) = 2 THEN Parsed(<<>>, 3) ELSE ParseFail)
    ELSE LET members == ParseMembers(text, 2, <<>>)
         IN  IF members.ok /\ members.next = Len(text) + 1 THEN members ELSE ParseFail

\* parsed == data of Python: the same keys with equal values
DictEqual(parsed, data) ==
    /\ {parsed[i][1] : i \in 1..Len(parsed)} = {<<k>> : k \in KeysOfDict(data)}
    /\ \A i \in 1..Len(parsed) : parsed[i][2] = DataGet(data, parsed[i][1][1])

MaxText == 2
TextChars == {"a", Quote, Backslash, Newline}
RECURSIVE TextsUpTo(_)
TextsUpTo(n) ==
    IF n = 0 THEN {<<>>}
    ELSE TextsUpTo(n - 1) \cup {Append(t, c) : t \in TextsUpTo(n - 1), c \in TextChars}
JsonValues ==
    {PyStr(t) : t \in TextsUpTo(MaxText)}
    \cup {PyInt(n) : n \in {-1, 0, 12}} \cup {PyBool(b) : b \in BOOLEAN}
    \cup {PyNone, PyFloat(1, <<"5">>), PyNan}
\* the dicts learned from: one value of each type
TypeSamples == {PyStr(<<"a">>), PyInt(0), PyBool(TRUE), PyNone, PyFloat(1, <<"5">>)}
TemplateDicts ==
    {<<<<k, v>>>> : k \in {"k", "m"}, v \in TypeSamples}
    \cup {<<<<"m", v>>, <<"k", w>>>> : v \in TypeSamples, w \in TypeSamples}
\* the dicts encoded: one key of any value, or two keys inserted out of order
FlatDicts ==
    {<<<<"k", v>>>> : v \in JsonValues}
    \cup {<<<<"m", v>>, <<"k", w>>>> : v \in TypeSamples, w \in {PyInt(12), PyStr(<<Quote>>)}}
EncoderRoutes == {RouteId("GET", PathX)}

LearnStructureCall(route_id, data) ==
    /\ encoder' = LearnStructure(encoder, route_id, data)
    /\ last' = Call("learn_structure", route_id, <<>>, data, -1,
                    ~(/\ HasRoute(encoder.fingerprints, route_id)
                      /\ RouteEntry(encoder.fingerprints, route_id).val # Fingerprint(data)), "")
    /\ UNCHANGED <<now, cacheVars, codepathVars, engineVars, recency, threads, locks, config, predictor>>

FastEncodeCall(route_id, data) ==
    /\ last' = Call("fast_encode", route_id, <<>>, data, -1, FastEncode(encoder, route_id, data), "")
    /\ UNCHANGED <<now, cacheVars, codepathVars, engineVars, recency, hostVars>>

NextEncoder ==
    \/ \E route_id \in EncoderRoutes, data \in TemplateDicts : LearnStructureCall(route_id, data)
    \/ \E route_id \in EncoderRoutes, data \in FlatDicts : FastEncodeCall(route_id, data)

SpecEncoder == Init /\ [][NextEncoder]_vars

\* C21: fast_encode on a route with a learned template, for a flat dict whose
\* keys are the template's keys and whose values are str, int, float, bool
\* or None, returns a text that a JSON parser reads back as a dict equal to
\* the original.
C21_RoundTrip ==
    (/\ last.op = "fast_encode"
     /\ HasRoute(encoder.templates, last.key)
     /\ KeysOfDict(last.data)
            = {RouteEntry(encoder.templates, last.key).val[i] :
                    i \in 1..Len(RouteEntry(encoder.templates, last.key).val)})
    => /\ JsonLoads(last.ret).ok
       /\ DictEqual(JsonLoads(last.ret).val, last.data)

----------------------------------------------------------------------------
(* Analyzer queries *)

\* an analyzer that has recorded all but MaxRequests of a hundred requests
\* GET /x of 10 ms and status 200
NearHundred == RecordMany(NewAnalyzer, "GET", PathX, 100 - MaxRequests, 0)

\* the engine as constructed, around an analyzer an that has seen traffic
InitFrom(an) ==
    /\ now = 0
    /\ cache = <<>>
    /\ hits = 0
    /\ misses = 0
    /\ memoized_routes = {}
    /\ preencoded_routes = {}
    /\ route_ttls = <<>>
    /\ cache_bypasses = 0
    /\ cp_total_requests = 0
    /\ analyzer = an
    /\ optimizer = NewOptimizer
    /\ last = NoCall
    /\ recency = <<>>
    /\ calls = {}
    /\ threads = NoThreads
    /\ locks = NoLocks
    /\ config = NoConfig
    /\ encoder = NewEncoder
    /\ predictor = NewPredictor

InitQueries == \E an \in {NewAnalyzer, NearHundred} : InitFrom(an)

\* a call of _refresh_snapshots, while the history is short
MaxHistory == 1
RefreshSnapshotsCall ==
    \E r \in {RefreshSnapshots(analyzer, now)} :
    /\ Len(analyzer.history) < MaxHistory
    /\ analyzer' = r.analyzer
    /\ last' = Call("refresh_snapshots", <<>>, <<>>, None, -1, None,
                    IF r.raised THEN "raised" ELSE "")
    /\ UNCHANGED <<hostVars, now, cacheVars, codepathVars, optimizer, recency, calls>>

\* a call of get_hot_routes whose result is kept
HotRoutesQuery(top_n) ==
    \E r \in {GetHotRoutes(analyzer, top_n, now)} :
    /\ analyzer' = r.analyzer
    /\ last' = Call("get_hot_routes", <<>>, <<top_n>>, None, -1, r.ret,
                    IF r.raised THEN "raised" ELSE "")
    /\ UNCHANGED <<hostVars, now, cacheVars, codepathVars, optimizer, recency, calls>>

\* the requests recorded: GET /x of 10 ms that succeeds or fails, POST /z of
\* 10 ms that succeeds (latencies in centiseconds)
QueryRequests ==
    {<<"GET", PathX, 1, 200>>, <<"GET", PathX, 1, 500>>, <<"POST", PathZ, 1, 200>>}
TopNs == {0, 1, 2}

NextHotRoutes ==
    \/ Tick
    \/ \E rq \in QueryRequests : RecordRequestCall(rq[1], rq[2], rq[3], rq[4])
    \/ RefreshSnapshotsCall
    \/ \E top_n \in TopNs : HotRoutesQuery(top_n)

SpecHotRoutes == InitQueries /\ [][NextHotRoutes]_vars

\* the one route GET /x, with a hundred requests and no error
HundredGets(an) ==
    /\ Len(an.routes) = 1
    /\ an.routes[1].method = "GET" /\ an.routes[1].path = PathX
    /\ an.routes[1].total_requests = 100
    /\ an.routes[1].total_errors = 0

(* C22: get_hot_routes(n) returns at most n routes, all tracked, in           *)
(* non-increasing order of heat_score, and no route left out has a higher    *)
(* heat_score than one returned; called with n = 1 right after a refresh     *)
(* that followed a hundred requests GET /x of status 200 and nothing else,   *)
(* it returns that route, with error_rate 0 and requests_per_second > 0.     *)
C22_HotRoutesRanked ==
    [][last'.op = "get_hot_routes" =>
        /\ Len(last'.ret) <= last'.args[1]
        /\ \A i \in 1..Len(last'.ret) : \E j \in 1..Len(analyzer'.routes) :
              last'.ret[i] = analyzer'.routes[j]
        /\ \A i, j \in 1..Len(last'.ret) :
              i < j => /\ ~RatLess(last'.ret[i].heat_score, last'.ret[j].heat_score)
                       /\ last'.ret[i] # last'.ret[j]
        /\ \A j \in 1..Len(analyzer'.routes) :
              (\A i \in 1..Len(last'.ret) : last'.ret[i] # analyzer'.routes[j])
              => \A i \in 1..Len(last'.ret) :
                    ~RatLess(last'.ret[i].heat_score, analyzer'.routes[j].heat_score)
        /\ (last.op = "refresh_snapshots" /\ HundredGets(analyzer) /\ last'.args[1] = 1)
           => /\ Len(last'.ret) = 1
              /\ last'.ret[1].method = "GET" /\ last'.ret[1].path = PathX
              /\ last'.ret[1].error_rate = Zero
              /\ RatLess(Zero, last'.ret[1].requests_per_second)]_vars

\* the route of the hundred requests returned, its snapshot taken after
\* the last of them
C22_Witness ==
    /\ last.op = "get_hot_routes"
    /\ last.args = <<1>>
    /\ HundredGets(analyzer)
    /\ Len(last.ret) = 1
    /\ last.ret[1].error_rate = Zero
    /\ RatLess(Zero, last.ret[1].requests_per_second)

\* n requests of 10 ms that fail with status 500, recorded at time t
RECURSIVE RecordFailures(_, _, _, _, _)
RecordFailures(an, method, path_pattern, n, t) ==
    IF n = 0 THEN an
    ELSE IF n = 1 THEN RecordRequest(an, method, path_pattern, 1, 500, t)
    ELSE CHOOSE an2 \in {RecordFailures(an1, method, path_pattern, n - (n \div 2), t) :
                            an1 \in {RecordFailures(an, method, path_pattern, n \div 2, t)}} : TRUE

\* an analyzer that has recorded all but MaxRequests of twenty failing
\* requests GET /x, and all but MaxRequests of ten failing requests POST /z
NearTwenty ==
    RecordFailures(RecordFailures(NewAnalyzer, "GET", PathX, 20 - MaxRequests, 0),
                   "POST", PathZ, MinErrorRequests - MaxRequests, 0)

\* a call of get_error_prone_routes
ErrorProneQuery(threshold) ==
    \E r \in {GetErrorProneRoutes(analyzer, threshold, now)} :
    /\ analyzer' = r.analyzer
    /\ last' = Call("get_error_prone_routes", <<>>, <<threshold>>, None, -1, r.ret,
                    IF r.raised THEN "raised" ELSE "")
    /\ UNCHANGED <<hostVars, now, cacheVars, codepathVars, optimizer, recency, calls>>

\* the default threshold, and one that a single success in ten stays above
ErrorThresholds == {Rat(1, 20), Rat(19, 20)}

NextErrorProne ==
    \/ Tick
    \/ \E rq \in {<<"GET", PathX>>, <<"POST", PathZ>>}, status_code \in {200, 500} :
          RecordRequestCall(rq[1], rq[2], 1, status_code)
    \/ RefreshSnapshotsCall
    \/ \E threshold \in ErrorThresholds : ErrorProneQuery(threshold)

SpecErrorProne == InitFrom(NearTwenty) /\ [][NextErrorProne]_vars

(* C23: get_error_prone_routes(threshold) returns exactly the tracked routes *)
(* whose error_rate is above the threshold and that have ten requests or     *)
(* more, so never a route with fewer than ten; called right after a refresh  *)
(* that followed twenty requests GET /x, all of status 500, it returns that  *)
(* route with error_rate 1.                                                  *)
C23_ErrorProneRoutes ==
    [][last'.op = "get_error_prone_routes" =>
        /\ \A j \in 1..Len(analyzer'.routes) :
              (\E i \in 1..Len(last'.ret) : last'.ret[i] = analyzer'.routes[j])
              <=> /\ RatLess(last'.args[1], analyzer'.routes[j].error_rate)
                  /\ analyzer'.routes[j].total_requests >= 10
        /\ \A i \in 1..Len(last'.ret) :
              /\ \E j \in 1..Len(analyzer'.routes) : last'.ret[i] = analyzer'.routes[j]
              /\ last'.ret[i].total_requests >= 10
        /\ (/\ last.op = "refresh_snapshots"
            /\ analyzer.routes[1].method = "GET" /\ analyzer.routes[1].path = PathX
            /\ analyzer.routes[1].total_requests = 20
            /\ analyzer.routes[1].total_errors = 20)
           => \E i \in 1..Len(last'.ret) :
                 /\ last'.ret[i].method = "GET" /\ last'.ret[i].path = PathX
                 /\ last'.ret[i].error_rate = One]_vars

\* the route of the twenty failing requests returned, and the route of fewer
\* than ten failing requests left out although its error_rate is 1
C23_Witness ==
    /\ last.op = "get_error_prone_routes"
    /\ Len(last.ret) = 1
    /\ last.ret[1].path = PathX /\ last.ret[1].total_requests = 20
    /\ last.ret[1].error_rate = One
    /\ analyzer.routes[2].total_requests < 10
    /\ analyzer.routes[2].error_rate = One

----------------------------------------------------------------------------
(* LatencyPredictor.  The predictor is the sequence of its routes, in the    *)
(* order they were first seen; each route carries its two EWMAs, the values  *)
(* of its two trend windows and of its spike window, and its strategy.       *)

RatDiv(x, y) == RatMul(x, IF y.n < 0 THEN Rat(0 - y.d, 0 - y.n) ELSE Rat(y.d, y.n))

RECURSIVE RatSum(_)
RatSum(s) == IF s = <<>> THEN Zero ELSE RatAdd(Head(s), RatSum(Tail(s)))

TrendWindow == 30
SpikeWindow == 100

\* EWMA(alpha=0.3)
NewEwma == [value |-> Zero, initialized |-> FALSE]

\* EWMA.update
EwmaUpdate(e, sample) ==
    IF ~e.initialized THEN [value |-> sample, initialized |-> TRUE]
    ELSE [e EXCEPT !.value = RatAdd(RatMul(Rat(3, 10), sample), RatMul(Rat(7, 10), e.value))]

\* RouteStrategy(route_key=route_id)
NewStrategy ==
    [cache_reward |-> Zero, async_reward |-> Zero, precompile_reward |-> Zero, observations |-> 0]

\* RouteStrategy.update_reward, with the default learning_rate 0.1
UpdateReward(st, strategy, reward) ==
    LET moved(r) == RatAdd(r, RatMul(Rat(1, 10), RatSub(reward, r)))
    IN  [st EXCEPT !.observations = @ + 1,
                   !.cache_reward = IF strategy = "cache" THEN moved(@) ELSE @,
                   !.async_reward = IF strategy = "async_priority" THEN moved(@) ELSE @,
                   !.precompile_reward = IF strategy = "precompile" THEN moved(@) ELSE @]

\* LatencyPredictor._update_strategy_rewards; avg_latency is in centiseconds
UpdateStrategyRewards(st, rm) ==
    UpdateReward(
        UpdateReward(
            UpdateReward(st, "cache",
                         IF RatLess(rm.error_rate, Rat(1, 100)) /\ RatLess(Rat(2, 1), rm.requests_per_second)
                         THEN One ELSE Rat(-1, 5)),
            "async_priority",
            IF RatLess(Rat(10, 1), rm.avg_latency) THEN Rat(4, 5) ELSE Rat(-1, 10)),
        "precompile",
        IF RatLess(Rat(1, 2), rm.heat_score) THEN One
        ELSE IF RatLess(Rat(1, 5), rm.heat_score) THEN Rat(3, 10)
        ELSE Rat(-3, 10))

\* the predictors update() creates for a route it has not seen
NewRoutePredictors(route_id) ==
    [route_id |-> route_id, rps_ewma |-> NewEwma, latency_ewma |-> NewEwma,
     rps_trend |-> <<>>, latency_trend |-> <<>>, spike_values |-> <<>>,
     strategy |-> NewStrategy]

\* the body of the loop of update() for one route
FeedRoute(rp, rm) ==
    [rp EXCEPT !.rps_ewma = EwmaUpdate(@, rm.requests_per_second),
               !.latency_ewma = EwmaUpdate(@, rm.avg_latency),
               !.rps_trend = DequeAppend(@, rm.requests_per_second, TrendWindow),
               !.latency_trend = DequeAppend(@, rm.avg_latency, TrendWindow),
               !.spike_values = DequeAppend(@, rm.requests_per_second, SpikeWindow),
               !.strategy = UpdateStrategyRewards(@, rm)]

PredictorIndex(pred, route_id) ==
    IF \E i \in 1..Len(pred) : pred[i].route_id = route_id
    THEN CHOOSE i \in 1..Len(pred) : pred[i].route_id = route_id
    ELSE 0

\* LatencyPredictor.update, given the routes get_all_route_metrics returns
RECURSIVE PredictorUpdate(_, _)
PredictorUpdate(pred, routes) ==
    IF routes = <<>> THEN pred
    ELSE LET rm == Head(routes)
             route_id == RouteId(rm.method, rm.path)
             pred1 == IF PredictorIndex(pred, route_id) = 0
                      THEN Append(pred, NewRoutePredictors(route_id)) ELSE pred
             i == PredictorIndex(pred1, route_id)
         IN  PredictorUpdate([pred1 EXCEPT ![i] = FeedRoute(@, rm)], Tail(routes))

\* the slope of the regression line through values, given the two means
SlopeAround(values, x_mean, y_mean) ==
    LET n == Len(values)
        numerator == RatSum([i \in 1..n |->
                         RatMul(RatSub(Rat(i - 1, 1), x_mean), RatSub(values[i], y_mean))])
        denominator == RatSum([i \in 1..n |->
                           RatMul(RatSub(Rat(i - 1, 1), x_mean), RatSub(Rat(i - 1, 1), x_mean))])
    IN  IF denominator = Zero THEN Zero ELSE RatDiv(numerator, denominator)

\* TrendDetector.slope
Slope(values) ==
    IF Len(values) < 3 THEN Zero
    ELSE CHOOSE s \in {SlopeAround(values, Rat(Len(values) - 1, 2), y_mean) :
                          y_mean \in {RatDiv(RatSum(values), Rat(Len(values), 1))}} : TRUE

\* TrendDetector.trend_direction, given the slope
DirectionOf(slope) ==
    IF RatLess(Rat(1, 100), slope) THEN "rising"
    ELSE IF RatLess(slope, Rat(-1, 100)) THEN "falling"
    ELSE "stable"

TrendDirection(values) == DirectionOf(Slope(values))

\* the acceleration predict_spike computes from the two halves of the window
Acceleration(values) ==
    LET half == Len(values) \div 2
        first_half == SubSeq(values, 1, half)
        recent_half == SubSeq(values, half + 1, Len(values))
        early_avg == RatDiv(RatSum(first_half), Rat(Len(first_half), 1))
        late_avg == RatDiv(RatSum(recent_half), Rat(Len(recent_half), 1))
    IN  IF Len(first_half) >= 2 /\ Len(recent_half) >= 2
        THEN RatDiv(RatSub(late_avg, early_avg), RatMax(early_avg, Rat(1, 1000)))
        ELSE Zero

\* round(x, 3) of a non-negative x: to the nearest thousandth, a tie to the
\* even one
Round3(x) ==
    LET scaled == RatMul(x, Rat(1000, 1))
        low == scaled.n \div scaled.d
        twice == 2 * (scaled.n % scaled.d)
    IN  IF twice < scaled.d \/ (twice = scaled.d /\ low % 2 = 0) THEN Rat(low, 1000)
        ELSE Rat(low + 1, 1000)

\* the probability predict_spike adds up, before min and round
SpikeProbability(slope, acceleration) ==
    RatAdd(RatAdd(IF RatLess(Rat(1, 20), slope) THEN Rat(3, 10) ELSE Zero,
                  IF RatLess(Rat(1, 2), acceleration) THEN Rat(2, 5) ELSE Zero),
           IF DirectionOf(slope) = "rising" /\ RatLess(Rat(1, 10), slope)
           THEN Rat(1, 5) ELSE Zero)

\* likely, probability and direction of the dict predict_spike returns on
\* five observations or more
SpikeResultSlopeOnly(slope, probability) ==
    [likely |-> RatLess(Rat(1, 20), slope),
     probability |-> Round3(probability),
     direction |-> DirectionOf(slope)]
SpikeResult(slope, probability) ==
    [likely |-> RatLess(Rat(1, 2), probability),
     probability |-> Round3(probability),
     direction |-> DirectionOf(slope)]

\* LatencyPredictor.predict_spike
PredictSpike(pred, route_id) ==
    IF PredictorIndex(pred, route_id) = 0
       \/ Len(pred[PredictorIndex(pred, route_id)].rps_trend) < 5
    THEN [likely |-> FALSE, probability |-> Zero]
    ELSE CHOOSE r \in {SpikeResult(slope, RatMin(SpikeProbability(slope, acceleration), Rat(95, 100))) :
                          slope \in {Slope(pred[PredictorIndex(pred, route_id)].rps_trend)},
                          acceleration \in {Acceleration(pred[PredictorIndex(pred, route_id)].rps_trend)}} :
                TRUE

\* an analyzer that tracks one route
Tracking(method, path) == RecordRequest(NewAnalyzer, method, path, 1, 200, 0)

\* the requests per second a route is seen at from cycle to cycle: GET /x
\* between 1 and 16, POST /z between one and five requests a minute
RpsLevels(rm) ==
    IF rm.path = PathX THEN {Rat(1, 1), Rat(2, 1), Rat(4, 1), Rat(8, 1), Rat(16, 1)}
    ELSE {Rat(1, 60), Rat(2, 60), Rat(3, 60), Rat(4, 60), Rat(5, 60)}

\* the values of the rps trend window of a route, none if the route is unknown
RpsTrend(pred, route_id) ==
    IF PredictorIndex(pred, route_id) = 0 THEN <<>>
    ELSE pred[PredictorIndex(pred, route_id)].rps_trend

\* values that never fall, or never rise
Monotone(values) ==
    \/ \A i \in 1..(Len(values) - 1) : ~RatLess(values[i + 1], values[i])
    \/ \A i \in 1..(Len(values) - 1) : ~RatLess(values[i], values[i + 1])

\* the traffic between two cycles: the requests recorded and the snapshot
\* taken leave the route at rps requests per second; from cycle to cycle the
\* traffic keeps rising, or keeps falling
Traffic(rps) ==
    /\ last.op # "traffic"
    /\ rps \in RpsLevels(analyzer.routes[1])
    /\ Monotone(Append(RpsTrend(predictor, RouteId(analyzer.routes[1].method,
                                                   analyzer.routes[1].path)), rps))
    /\ analyzer' = [analyzer EXCEPT !.routes[1].requests_per_second = rps]
    /\ last' = Quiet("traffic")
    /\ UNCHANGED <<now, cacheVars, codepathVars, optimizer, calls, recency, hostVars>>

MaxUpdates == 5

\* a call of LatencyPredictor.update
PredictorUpdateCall ==
    /\ \A i \in 1..Len(predictor) : Len(predictor[i].rps_trend) < MaxUpdates
    /\ predictor' = PredictorUpdate(predictor, analyzer.routes)
    /\ last' = Quiet("update")
    /\ UNCHANGED <<now, cacheVars, codepathVars, engineVars, recency, threads, locks, config, encoder>>

\* a call of LatencyPredictor.predict_spike
PredictSpikeCall(route_id) ==
    /\ last' = Call("predict_spike", route_id, <<>>, None, -1, PredictSpike(predictor, route_id), "")
    /\ UNCHANGED <<now, cacheVars, codepathVars, engineVars, recency, hostVars>>

NextPredictor ==
    \/ \E rps \in RpsLevels(analyzer.routes[1]) : Traffic(rps)
    \/ PredictorUpdateCall
    \/ \E route_id \in {RouteId("GET", PathX), RouteId("POST", PathZ)} : PredictSpikeCall(route_id)

SpecPredictor ==
    /\ \E rq \in {<<"GET", PathX>>, <<"POST", PathZ>>} : InitFrom(Tracking(rq[1], rq[2]))
    /\ [][NextPredictor]_vars

StrictlyIncreasing(values) ==
    \A i \in 1..(Len(values) - 1) : RatLess(values[i], values[i + 1])

(* C24: predict_spike returns likely = false and probability 0 on fewer than *)
(* five observations; in every result likely is true exactly when the        *)
(* probability is above 0.5, and the probability is at most 0.95; on five    *)
(* observations or more likely is true exactly when the slope of the window  *)
(* is above 0.05 and its later half averages more than 1.5 times its first   *)
(* half, as it does after 1, 2, 4, 8, 16.                                    *)
C24_SpikeLikely ==
    last.op = "predict_spike" =>
        /\ Len(RpsTrend(predictor, last.key)) < 5
              => ~last.ret.likely /\ last.ret.probability = Zero
        /\ last.ret.likely <=> RatLess(Rat(1, 2), last.ret.probability)
        /\ ~RatLess(Rat(95, 100), last.ret.probability)
        /\ Len(RpsTrend(predictor, last.key)) >= 5
              => (last.ret.likely <=>
                    /\ RatLess(Rat(1, 20), Slope(RpsTrend(predictor, last.key)))
                    /\ RatLess(Rat(1, 2), Acceleration(RpsTrend(predictor, last.key))))
        /\ RpsTrend(predictor, last.key) = <<Rat(1, 1), Rat(2, 1), Rat(4, 1), Rat(8, 1), Rat(16, 1)>>
              => last.ret.likely

\* a spike found likely after 1, 2, 4, 8, 16
C24_Witness ==
    /\ last.op = "predict_spike"
    /\ RpsTrend(predictor, last.key) = <<Rat(1, 1), Rat(2, 1), Rat(4, 1), Rat(8, 1), Rat(16, 1)>>
    /\ last.ret.likely
    /\ last.ret.probability = Rat(9, 10)

(* C24 as stated: after a window of five or more observations that rise at   *)
(* every step, predict_spike returns likely = true and a probability above   *)
(* 0.5.                                                                      *)
C24_IncreasingIsLikely ==
    (/\ last.op = "predict_spike"
     /\ Len(RpsTrend(predictor, last.key)) >= 5
     /\ StrictlyIncreasing(RpsTrend(predictor, last.key)))
    => /\ last.ret.likely
       /\ RatLess(Rat(1, 2), last.ret.probability)

----------------------------------------------------------------------------
(* The hot set *)

\* the path /r<i>
NumberedPath(i) == <<"/", "r">> \o IntStr(i)

\* an analyzer that has recorded one request GET /r<i> of 10 ms and status
\* 200 for each i up to n
RECURSIVE Crowded(_)
Crowded(n) ==
    IF n = 0 THEN NewAnalyzer
    ELSE CHOOSE an \in {RecordRequest(an1, "GET", NumberedPath(n), 1, 200, 0) :
                           an1 \in {Crowded(n - 1)}} : TRUE

\* one route more than hot_route_slots, their snapshots taken
OneTooMany == RefreshSnapshots(Crowded(HotRouteSlots + 1), 0).analyzer

\* the first route turns slow and fails, the last route warms up
HotSetRequests ==
    {<<"GET", NumberedPath(1), 400, 500>>, <<"GET", NumberedPath(HotRouteSlots + 1), 1, 200>>}

NextHotSet ==
    \/ Tick
    \/ \E rq \in HotSetRequests : RecordRequestCall(rq[1], rq[2], rq[3], rq[4])
    \/ RunOptimizationCycleCall

SpecHotSet == InitFrom(OneTooMany) /\ [][NextHotSet]_vars

\* the tracked routes of heat above 0.1
Warm(an) == {j \in 1..Len(an.routes) : RatLess(Rat(1, 10), an.routes[j].heat_score)}
KeyOf(rm) == <<rm.method, rm.path>>

(* C25: after a cycle the hot set holds at most hot_route_slots routes, all  *)
(* of them tracked with heat_score above 0.1; a route of heat_score above    *)
(* 0.1 is left out only when the set is full and none of its members is      *)
(* cooler; is_hot_route is true exactly for the members; and the cycle logs  *)
(* route_promote iff a route has entered the set and route_demote iff a      *)
(* route has left it.                                                        *)
C25_HotSet ==
    [][(last'.op = "run_optimization_cycle" /\ last'.info = "cycle") =>
        /\ Cardinality(HotKeys(optimizer'.hot_route_cache)) <= HotRouteSlots
        /\ Len(optimizer'.hot_route_cache) = Cardinality(HotKeys(optimizer'.hot_route_cache))
        /\ \A k \in HotKeys(optimizer'.hot_route_cache) :
              \E j \in Warm(analyzer') : KeyOf(analyzer'.routes[j]) = k
        /\ \A j \in Warm(analyzer') :
              KeyOf(analyzer'.routes[j]) \notin HotKeys(optimizer'.hot_route_cache)
              => /\ Cardinality(HotKeys(optimizer'.hot_route_cache)) = HotRouteSlots
                 /\ \A i \in Warm(analyzer') :
                       KeyOf(analyzer'.routes[i]) \in HotKeys(optimizer'.hot_route_cache)
                       => ~RatLess(analyzer'.routes[i].heat_score, analyzer'.routes[j].heat_score)
        /\ \A j \in 1..Len(analyzer'.routes), method \in {"GET", "get", "POST"} :
              IsHotRoute(optimizer', method, analyzer'.routes[j].path)
              <=> <<Upper(method), analyzer'.routes[j].path>> \in HotKeys(optimizer'.hot_route_cache)
        /\ "route_promote" \in LoggedTypes(optimizer.evolution_log, optimizer'.evolution_log)
              <=> HotKeys(optimizer'.hot_route_cache) \ HotKeys(optimizer.hot_route_cache) # {}
        /\ "route_demote" \in LoggedTypes(optimizer.evolution_log, optimizer'.evolution_log)
              <=> HotKeys(optimizer.hot_route_cache) \ HotKeys(optimizer'.hot_route_cache) # {}]_vars

\* a full hot set after a cycle that has let the last route in and dropped
\* another route of heat above 0.1
C25_Witness ==
    /\ last.op = "run_optimization_cycle" /\ last.info = "cycle"
    /\ Cardinality(HotKeys(optimizer.hot_route_cache)) = HotRouteSlots
    /\ <<"GET", NumberedPath(HotRouteSlots + 1)>> \in HotKeys(optimizer.hot_route_cache)
    /\ \E j \in Warm(analyzer) : KeyOf(analyzer.routes[j]) \notin HotKeys(optimizer.hot_route_cache)
    /\ \E k \in 1..Len(optimizer.evolution_log) :
          {optimizer.evolution_log[k].actions[a].type :
              a \in 1..Len(optimizer.evolution_log[k].actions)} = {"route_promote", "route_demote"}

----------------------------------------------------------------------------
(* The initial middleware order *)

NextInitialOrder ==
    \/ Tick
    \/ \E name \in MiddlewareNames, run \in MiddlewareRuns :
          RecordMiddlewareCall(name, run[1], run[2])
    \/ RunOptimizationCycleCall

SpecInitialOrder == Init /\ [][NextInitialOrder]_vars

\* 3.0 x short_circuit_rate + max(0, 1.0 - avg_latency x 10), the average
\* latency being in centiseconds
StatedScore(mm) ==
    RatAdd(RatMul(Rat(3, 1), ShortCircuitRate(mm)),
           RatMax(Zero, RatSub(One, RatMul(mm.avg_latency, Rat(1, 10)))))

\* order holds the names of all of mws, each once, by descending score
AllByScore(order, mws) ==
    /\ Len(order) = Len(mws)
    /\ \A i \in 1..Len(mws) : \E j \in 1..Len(order) : order[j] = mws[i].name
    /\ \A i, j \in 1..Len(order) :
          i < j => ~RatLess(StatedScore(mws[MiddlewareIndex(mws, order[i])]),
                            StatedScore(mws[MiddlewareIndex(mws, order[j])]))

(* C26: a cycle that finds no prior order and two or more tracked middleware *)
(* adopts as order all tracked middleware by descending score                *)
(* 3.0 x short_circuit_rate + max(0, 1.0 - avg_latency x 10) and logs a      *)
(* middleware_initial_order action; with fewer than two tracked middleware   *)
(* it sets no order and logs no middleware action.                           *)
C26_InitialOrder ==
    [][(/\ last'.op = "run_optimization_cycle" /\ last'.info = "cycle"
        /\ optimizer.optimal_mw_order = NoOrder)
       => IF Len(analyzer'.middleware) >= 2
          THEN /\ AllByScore(optimizer'.optimal_mw_order, analyzer'.middleware)
               /\ "middleware_initial_order"
                     \in LoggedTypes(optimizer.evolution_log, optimizer'.evolution_log)
          ELSE /\ optimizer'.optimal_mw_order = NoOrder
               /\ LoggedTypes(optimizer.evolution_log, optimizer'.evolution_log)
                     \cap {"middleware_initial_order", "middleware_reorder"} = {}]_vars

\* an initial order of two middleware, the one tracked second placed first
C26_Witness ==
    /\ last.op = "run_optimization_cycle" /\ last.info = "cycle"
    /\ Len(analyzer.middleware) = 2
    /\ optimizer.optimal_mw_order = <<analyzer.middleware[2].name, analyzer.middleware[1].name>>
    /\ Len(optimizer.evolution_log) = 1
    /\ optimizer.evolution_log[1].actions[1].type = "middleware_initial_order"

(* C26 as stated: a cycle that finds no prior order adopts as order all      *)
(* tracked middleware, however many, by descending score and logs a          *)
(* middleware_initial_order action.                                          *)
C26_InitialOrderAnyNumber ==
    [][(/\ last'.op = "run_optimization_cycle" /\ last'.info = "cycle"
        /\ optimizer.optimal_mw_order = NoOrder)
       => /\ AllByScore(optimizer'.optimal_mw_order, analyzer'.middleware)
          /\ "middleware_initial_order"
                \in LoggedTypes(optimizer.evolution_log, optimizer'.evolution_log)]_vars

----------------------------------------------------------------------------
(* The evolution log *)

\* AdaptiveOptimizer.get_evolution_log: a copy of the list
GetEvolutionLogCall ==
    /\ last' = Call("get_evolution_log", <<>>, <<>>, None, -1,
                    [i \in 1..Len(optimizer.evolution_log) |-> optimizer.evolution_log[i]], "")
    /\ UNCHANGED <<now, cacheVars, codepathVars, engineVars, recency, hostVars>>

\* a fast middleware and a slow one that short-circuits
EvolutionRuns == {<<"A", 1, FALSE>>, <<"B", 20, TRUE>>}

NextEvolution ==
    \/ Tick
    \/ RecordRequestCall("GET", PathX, 1, 200)
    \/ \E run \in EvolutionRuns : RecordMiddlewareCall(run[1], run[2], run[3])
    \/ RunOptimizationCycleCall
    \/ GetEvolutionLogCall

SpecEvolution == Init /\ [][NextEvolution]_vars

RouteActions == {"route_promote", "route_demote"}
MiddlewareActions == {"middleware_initial_order", "middleware_reorder"}

(* C27: no step removes or changes an entry of the evolution log; a step     *)
(* that is no cycle leaves the log as it is; a cycle appends one entry when  *)
(* it has changed the hot set or the middleware order and none otherwise;    *)
(* the entry carries the cycle counter of the cycle and its actions, those   *)
(* of the routes before those of the middleware; and the cycle numbers of    *)
(* the log increase strictly.                                                *)
C27_LogAppendOnly ==
    [][/\ Len(optimizer'.evolution_log) >= Len(optimizer.evolution_log)
       /\ SubSeq(optimizer'.evolution_log, 1, Len(optimizer.evolution_log)) = optimizer.evolution_log
       /\ Len(optimizer'.evolution_log) <= Len(optimizer.evolution_log) + 1
       /\ last'.op # "run_optimization_cycle" => optimizer'.evolution_log = optimizer.evolution_log
       /\ (last'.op = "run_optimization_cycle" /\ last'.info = "cycle")
          => /\ Len(optimizer'.evolution_log) = Len(optimizer.evolution_log) + 1
                <=> \/ HotKeys(optimizer'.hot_route_cache) # HotKeys(optimizer.hot_route_cache)
                    \/ optimizer'.optimal_mw_order # optimizer.optimal_mw_order
             /\ optimizer'.optimization_count = optimizer.optimization_count + 1
       /\ Len(optimizer'.evolution_log) = Len(optimizer.evolution_log) + 1
          => \E entry \in {optimizer'.evolution_log[Len(optimizer'.evolution_log)]} :
                /\ entry.cycle = optimizer'.optimization_count
                /\ entry.actions # <<>>
                /\ \A a, b \in 1..Len(entry.actions) :
                      a < b => ~(/\ entry.actions[a].type \in MiddlewareActions
                                 /\ entry.actions[b].type \in RouteActions)
       /\ \A i, j \in 1..Len(optimizer'.evolution_log) :
             i < j => optimizer'.evolution_log[i].cycle < optimizer'.evolution_log[j].cycle]_vars

\* a log of two entries, the first on the middleware and the second on the
\* routes, and a cycle in between that logged nothing
C27_Witness ==
    /\ last.op = "run_optimization_cycle"
    /\ Len(optimizer.evolution_log) = 2
    /\ optimizer.evolution_log[2].cycle = optimizer.optimization_count
    /\ optimizer.evolution_log[1].cycle + 1 < optimizer.evolution_log[2].cycle
    /\ optimizer.evolution_log[1].actions[1].type \in MiddlewareActions
    /\ optimizer.evolution_log[2].actions[1].type \in RouteActions

(***************************************************************************)
(* Refresh-if-stale in the analyzer's queries                              *)
(***************************************************************************)

\* TrafficAnalyzer.get_slow_routes: p95_latency is kept in centiseconds, the
\* threshold is in milliseconds
GetSlowRoutes(an, threshold_ms, t) ==
    LET r == MaybeRefresh(an, t) IN
    [analyzer |-> r.analyzer, raised |-> r.raised,
     ret |-> IF r.raised THEN <<>>
             ELSE SelectSeq(r.analyzer.routes,
                            LAMBDA rm : rm.p95_latency * 10 > threshold_ms)]

\* TrafficAnalyzer.get_history: a copy of the stored history points
GetHistory(an) ==
    [analyzer |-> an, raised |-> FALSE,
     ret |-> [i \in 1..Len(an.history) |-> an.history[i]]]

SlowRoutesQuery(threshold_ms) ==
    \E r \in {GetSlowRoutes(analyzer, threshold_ms, now)} :
    /\ analyzer' = r.analyzer
    /\ last' = Call("get_slow_routes", <<>>, <<threshold_ms>>, None, -1, r.ret,
                    IF r.raised THEN "raised" ELSE "")
    /\ UNCHANGED <<hostVars, now, cacheVars, codepathVars, optimizer, recency, calls>>

MiddlewareMetricsQuery ==
    \E r \in {GetMiddlewareMetrics(analyzer, now)} :
    /\ analyzer' = r.analyzer
    /\ last' = Call("get_middleware_metrics", <<>>, <<>>, None, -1, r.ret,
                    IF r.raised THEN "raised" ELSE "")
    /\ UNCHANGED <<hostVars, now, cacheVars, codepathVars, optimizer, recency, calls>>

HistoryQuery ==
    \E r \in {GetHistory(analyzer)} :
    /\ analyzer' = r.analyzer
    /\ last' = Call("get_history", <<>>, <<>>, None, -1, r.ret, "")
    /\ UNCHANGED <<hostVars, now, cacheVars, codepathVars, optimizer, recency, calls>>

\* a fast request and a slow one
StaleRequests == {<<"GET", PathX, 1, 200>>, <<"GET", PathX, 30, 200>>}
SlowThresholds == {200}

NextQueries ==
    \/ Tick
    \/ \E rq \in StaleRequests : RecordRequestCall(rq[1], rq[2], rq[3], rq[4])
    \/ RecordMiddlewareCall("A", 1, FALSE)
    \/ HotRoutesQuery(1)
    \/ \E threshold_ms \in SlowThresholds : SlowRoutesQuery(threshold_ms)
    \/ ErrorProneQuery(Rat(1, 20))
    \/ MiddlewareMetricsQuery
    \/ HistoryQuery

SpecQueries == Init /\ [][NextQueries]_vars

AnalyzerQueries ==
    {"get_hot_routes", "get_slow_routes", "get_error_prone_routes",
     "get_middleware_metrics", "get_history"}

\* C28: every analyzer query (get_hot_routes, get_slow_routes,
\* get_error_prone_routes, get_middleware_metrics, get_history) made when at
\* least snapshot_interval has passed since the last refresh refreshes first:
\* afterwards the snapshots are those of the present moment, the history ends
\* with a point taken now, and get_history returns that history.
C28_QueriesRefresh ==
    [][(/\ last'.op \in AnalyzerQueries
        /\ now - analyzer.last_snapshot >= SnapshotInterval)
       => /\ analyzer'.last_snapshot = now
          /\ \A i \in 1..Len(analyzer.routes) :
                analyzer'.routes[i] = RouteSnapshot(analyzer.routes[i], now)
          /\ analyzer'.history # <<>>
          /\ analyzer'.history[Len(analyzer'.history)].ts = now
          /\ last'.op = "get_history" => last'.ret = analyzer'.history]_vars

(***************************************************************************)
(* The host's request pipeline                                             *)
(***************************************************************************)

\* Ishaa.handle_request on a host with an enabled SARE engine (its predictor
\* disabled), no middleware, no RMF and no SEQP.  The handler either returns a response with the given
\* body and status or raises.  Step 1 is SARE.before_request; a payload it
\* returns is turned into the response at once.  Otherwise the route is
\* resolved (404 or 405 when there is none), the handler runs, and
\* SARE.after_request records and stores the response; when the handler
\* raises, the except branch records the request with status 500.  The
\* request's headers (a dict) reach the handler only: no step of SARE reads them.
HandleRequestCall(method, path, query_string, headers, body, status_code, raises, latency) ==
    \E m \in {MaybeOptimize(optimizer, analyzer, now)} :
    \E h \in {IF AutoMemoize /\ ~m.raised THEN GetHotRoutes(m.analyzer, 20, now)
              ELSE [analyzer |-> m.analyzer, raised |-> m.raised, ret |-> <<>>]} :
    LET enabled == IF AutoMemoize /\ ~h.raised THEN AutoMemoizeCheck(memoized_routes, h.ret)
                   ELSE {}
        memo == memoized_routes \cup enabled
        r == TryCacheHit(cache, memo, RouteId(method, path), method, path, query_string, now)
        route == Resolve(path, method)
        response_data == ResponseData(body, status_code)
        served == ~h.raised /\ r.hit = 0 /\ route # NoRoute
    IN  /\ cp_total_requests < MaxCount
        /\ Cardinality(calls) < MaxRequests
        /\ optimizer' = m.optimizer
        /\ IF h.raised
           THEN UNCHANGED <<cacheVars, codepathVars, recency>>
           ELSE /\ memoized_routes' = memo
                /\ preencoded_routes' = preencoded_routes \cup enabled
                /\ cp_total_requests' = cp_total_requests + 1
                /\ cache_bypasses' = cache_bypasses + r.bypass
                /\ hits' = hits + r.hit
                /\ misses' = misses + r.miss
                /\ cache' = IF served /\ ~raises /\ ShouldStore(status_code)
                            THEN StoreResponse(r.cache, memo, route_ttls,
                                               RouteId(method, route.path), method, path,
                                               query_string, response_data, now,
                                               DefaultTtl, MaxSize)
                            ELSE r.cache
                /\ recency' = Restrict(recency, KeysOf(cache'))
                /\ UNCHANGED route_ttls
        /\ analyzer' = IF served
                       THEN RecordRequest(h.analyzer, method, route.path, latency,
                                          IF raises THEN 500 ELSE status_code, now)
                       ELSE h.analyzer
        /\ calls' = IF served
                    THEN Logged(calls, method, route.path, IF raises THEN 500 ELSE status_code)
                    ELSE calls
        /\ last' = Call("handle_request", <<>>, <<method, path, query_string, headers>>,
                        response_data, -1,
                        IF ~h.raised /\ r.hit = 1 THEN r.ret ELSE None,
                        IF h.raised THEN "raised"
                        ELSE IF r.hit = 1 THEN "cached"
                        ELSE IF route = NoRoute THEN "not_found"
                        ELSE IF raises THEN "error" ELSE "served")
        /\ UNCHANGED <<hostVars, now>>

\* a request without headers
NoHeaders == <<>>

\* requests for a static route, for a dynamic route and for no route
HostRequests == {<<"GET", PathX>>, <<"GET", PathU1>>, <<"GET", PathZ>>}

NextHost ==
    \/ Tick
    \/ EnableMemoization(RouteId("GET", PathX), NoTtl)
    \/ \E rq \in HostRequests, raises \in BOOLEAN :
          HandleRequestCall(rq[1], rq[2], QueryEmpty, NoHeaders, "b1", 200, raises, 1)

SpecHost == Init /\ [][NextHost]_vars

\* C29: every request the host completes on a matched route, one answered
\* from the response cache by before_request included, makes exactly one
\* record_request call on the analyzer.
C29_EveryRequestObserved ==
    [][(/\ last'.op = "handle_request"
        /\ Resolve(last'.args[2], last'.args[1]) # NoRoute)
       => /\ Cardinality(calls') = Cardinality(calls) + 1
          /\ analyzer'.total_requests = analyzer.total_requests + 1]_vars

(***************************************************************************)
(* The predictor's observations                                            *)
(***************************************************************************)

\* SARE.after_request with the predictor enabled: its last step is
\* predictor.update(), which reads the analyzer's routes as they are
AfterRequestPredicting(method, path, query_string, body, status_code, latency) ==
    /\ AfterRequestSteps(method, path, query_string, body, status_code, latency)
    /\ predictor' = PredictorUpdate(predictor, analyzer'.routes)

NextPredicting ==
    \/ Tick
    \/ BeforeRequestCall("GET", PathX, QueryEmpty)
    \/ \E status_code \in Statuses :
          AfterRequestPredicting("GET", PathX, QueryEmpty, "b1", status_code, 1)
    \/ RunOptimizationCycleCall

SpecPredicting == Init /\ [][NextPredicting]_vars

\* the number of observations the predictor has taken of a route
Observations(pred, route_id) ==
    IF PredictorIndex(pred, route_id) = 0 THEN 0
    ELSE Len(pred[PredictorIndex(pred, route_id)].rps_trend)

\* C30: the predictor takes one observation of each route per optimization
\* cycle: a step adds as many observations to a tracked route's windows as it
\* completes cycles, however many requests it handles.
C30_OneUpdatePerCycle ==
    [][\A i \in 1..Len(analyzer'.routes) :
          LET route_id == RouteId(analyzer'.routes[i].method, analyzer'.routes[i].path)
          IN  Observations(predictor', route_id) - Observations(predictor, route_id)
              = optimizer'.optimization_count - optimizer.optimization_count]_vars

(***************************************************************************)
(* The size of the template store                                          *)
(***************************************************************************)

TemplateSlots == 2      \* max_templates of the encoder modelled here

\* learn_structure on an encoder of TemplateSlots templates; the value it
\* returns is False when the route's fingerprint changed
LearnBoundedCall(route_id, data) ==
    /\ encoder' = LearnStructureWith(encoder, route_id, data, TemplateSlots)
    /\ last' = Call("learn_structure", route_id, <<>>, data, -1,
                    ~(/\ HasRoute(encoder.fingerprints, route_id)
                      /\ RouteEntry(encoder.fingerprints, route_id).val # Fingerprint(data)), "")
    /\ UNCHANGED <<now, cacheVars, codepathVars, engineVars, recency, threads, locks, config, predictor>>

\* one route more than the store has room for
ManyRoutes == {RouteId("GET", NumberedPath(i)) : i \in 1..(TemplateSlots + 1)}
StoreDicts == {<<<<"k", PyInt(0)>>>>, <<<<"k", PyNone>>>>}

NextTemplates ==
    \E route_id \in ManyRoutes, data \in StoreDicts : LearnBoundedCall(route_id, data)

SpecTemplates == Init /\ [][NextTemplates]_vars

\* C31: whatever learn_structure calls were made, the encoder holds at most
\* max_templates templates and at most max_templates structure fingerprints.
C31_TemplateStoreBounded ==
    /\ Len(encoder.templates) <= TemplateSlots
    /\ Len(encoder.fingerprints) <= TemplateSlots

(***************************************************************************)
(* The terms of the heat score                                             *)
(***************************************************************************)

\* the three terms of the heat score of a route, from its snapshot values
\* (avg_latency in centiseconds): the error term falls from 1 to 0 while the
\* error rate goes from 0 to one half and is 0 from there on
FrequencyTerm(rm) ==
    IF RatLess(Rat(10, 1), rm.requests_per_second) THEN One
    ELSE RatMul(rm.requests_per_second, Rat(1, 10))
LatencyTerm(rm) ==
    IF RatLess(Rat(200, 1), rm.avg_latency) THEN Zero
    ELSE RatSub(One, RatMul(rm.avg_latency, Rat(1, 200)))
ErrorTerm(rm) ==
    IF RatLess(rm.error_rate, Rat(1, 2))
    THEN RatSub(One, RatAdd(rm.error_rate, rm.error_rate))
    ELSE Zero
\* the error term as 1 - error_rate
LinearErrorTerm(rm) == RatSub(One, rm.error_rate)

Weighted(freq, lat, err) ==
    RatAdd(RatMul(Rat(1, 2), freq), RatAdd(RatMul(Rat(3, 10), lat), RatMul(Rat(1, 5), err)))

Refreshing == last'.op = "get_hot_routes" /\ analyzer.last_snapshot < now /\ last'.info # "raised"

SareResetCall ==
    /\ analyzer' = ResetAnalyzer(analyzer)
    /\ calls' = {}
    /\ cache' = <<>>
    /\ hits' = 0
    /\ misses' = 0
    /\ recency' = <<>>
    /\ last' = Quiet("sare_reset")
    /\ UNCHANGED <<hostVars, now, codepathVars, optimizer>>

NextReset ==
    \/ Tick
    \/ EnableMemoization(RouteId("GET", PathX), NoTtl)
    \/ AfterRequestCall("GET", PathX, QueryEmpty, "b1", 200, 1)
    \/ \E run \in EvolutionRuns : RecordMiddlewareCall(run[1], run[2], run[3])
    \/ RunOptimizationCycleCall
    \/ SareResetCall

SpecReset == Init /\ [][NextReset]_vars

\* C33: after SARE.reset the analyzer, the response cache, the optimizer's
\* hot set, middleware order, cycle counter and evolution log, the predictor
\* and the memoized and pre-encoded route sets are as in a new engine.
C33_ResetRestoresNewEngine ==
    last.op = "sare_reset" =>
        /\ analyzer = NewAnalyzer
        /\ cache = <<>> /\ hits = 0 /\ misses = 0
        /\ optimizer.hot_route_cache = NewOptimizer.hot_route_cache
        /\ optimizer.optimal_mw_order = NewOptimizer.optimal_mw_order
        /\ optimizer.optimization_count = NewOptimizer.optimization_count
        /\ optimizer.evolution_log = NewOptimizer.evolution_log
        /\ predictor = NewPredictor
        /\ memoized_routes = {}
        /\ preencoded_routes = {}

(***************************************************************************)
(* The flag of a changed middleware order                                  *)
(***************************************************************************)

\* AdaptiveOptimizer.did_middleware_order_change: returns the flag and clears it
DidMiddlewareOrderChangeCall ==
    /\ optimizer' = [optimizer EXCEPT !.mw_order_changed = FALSE]
    /\ last' = Call("did_middleware_order_change", <<>>, <<>>, None, -1,
                    optimizer.mw_order_changed, "")
    /\ UNCHANGED <<now, cacheVars, codepathVars, analyzer, calls, recency, hostVars>>

NextOrderChanged ==
    \/ Tick
    \/ \E run \in EvolutionRuns : RecordMiddlewareCall(run[1], run[2], run[3])
    \/ RunOptimizationCycleCall
    \/ DidMiddlewareOrderChangeCall

SpecOrderChanged == Init /\ [][NextOrderChanged]_vars

\* the most recent cycle set or changed the middleware order: it logged an
\* entry with an action on the middleware
LastCycleChangedOrder(opt) ==
    /\ opt.evolution_log # <<>>
    /\ opt.evolution_log[Len(opt.evolution_log)].cycle = opt.optimization_count
    /\ \E i \in 1..Len(opt.evolution_log[Len(opt.evolution_log)].actions) :
          opt.evolution_log[Len(opt.evolution_log)].actions[i].type \in MiddlewareActions

\* C34: did_middleware_order_change called right after an optimization cycle
\* returns True exactly when that cycle set or changed the middleware order
\* (False after a cycle that left the order as it was), and a call that
\* follows another call returns False.
C34_OrderChangedFlag ==
    [][last'.op = "did_middleware_order_change" =>
        /\ last.op = "run_optimization_cycle"
              => (last'.ret <=> LastCycleChangedOrder(optimizer))
        /\ last.op = "did_middleware_order_change" => ~last'.ret]_vars

(***************************************************************************)
(* Requests that differ in a header                                        *)
(***************************************************************************)

Users == {"alice", "bob"}
\* the headers of a request of a user, and the body the handler answers it with
AuthorizedHeaders(user) == <<<<"authorization", user>>>>
BodyFor(headers) == <<"private", headers[1][2]>>

NextHeaders ==
    \/ Tick
    \/ EnableMemoization(RouteId("GET", PathX), NoTtl)
    \/ \E user \in Users, query_string \in {QueryEmpty, QueryA}, status_code \in Statuses :
          HandleRequestCall("GET", PathX, query_string, AuthorizedHeaders(user),
                            BodyFor(AuthorizedHeaders(user)), status_code, FALSE, 1)

SpecHeaders == Init /\ [][NextHeaders]_vars

\* C35: a request answered from the response cache gets a response that was
\* stored for a request with the same Authorization header: here, the body
\* the handler makes for the user who sent the request.
C35_HeadersSeparateEntries ==
    [][(last'.op = "handle_request" /\ last'.info = "cached")
       => last'.ret.body = BodyFor(last'.args[4])]_vars

(***************************************************************************)
(* Percentiles                                                             *)
(***************************************************************************)

MaxRun == 6     \* the longest run of equal samples at the top of a window

\* a window of n latencies: high of them 3, then middle of them 2, the rest 1
SampleWindow(n, high, middle) ==
    [i \in 1..n |-> IF i <= high THEN 3 ELSE IF i <= high + middle THEN 2 ELSE 1]

\* the numbers of samples around the limits of 20 and 100
SampleSizes == {1, 2, 3, 19, 20, 21, 40, 99, 100, 101}

\* an analyzer whose only route has the given window (the default window
\* size of 1000 holds all of it), every request made at time 0
Sampled(latencies) ==
    [NewAnalyzer EXCEPT
        !.routes = <<[NewRouteMetrics("GET", PathX) EXCEPT
                         !.latencies = latencies,
                         !.timestamps = [i \in 1..Len(latencies) |-> 0],
                         !.total_requests = Len(latencies)]>>,
        !.total_requests = Len(latencies)]

InitPercentiles ==
    \E n \in SampleSizes, high \in 0..MaxRun, middle \in 0..MaxRun :
       /\ high + middle <= n
       /\ InitFrom(Sampled(SampleWindow(n, high, middle)))

\* RouteMetrics.compute_snapshot on the route
ComputeSnapshotCall ==
    /\ analyzer' = [analyzer EXCEPT !.routes[1] = RouteSnapshot(@, now)]
    /\ last' = Quiet("compute_snapshot")
    /\ UNCHANGED <<now, cacheVars, codepathVars, optimizer, calls, recency, hostVars>>

NextPercentiles == Tick \/ ComputeSnapshotCall

SpecPercentiles == InitPercentiles /\ [][NextPercentiles]_vars

\* value is the sample at the given index (from 0) of the samples in order:
\* it is a sample, at most index samples lie below it and at most
\* n - 1 - index samples lie above it
AtIndex(samples, value, index) ==
    /\ \E i \in 1..Len(samples) : samples[i] = value
    /\ Cardinality({i \in 1..Len(samples) : samples[i] < value}) <= index
    /\ Cardinality({i \in 1..Len(samples) : samples[i] > value}) <= Len(samples) - 1 - index

MaxSample(samples) ==
    CHOOSE v \in {samples[i] : i \in 1..Len(samples)} :
        \A i \in 1..Len(samples) : samples[i] <= v

\* C36: after compute_snapshot on n >= 1 samples p50 is the sample at index
\* n div 2 of the samples in order, p95 the one at index floor(0.95 n) when
\* n >= 20 and the maximum otherwise, p99 the one at index floor(0.99 n) when
\* n >= 100 and the maximum otherwise, and p50 <= p95 <= p99 <= maximum.
C36_Percentiles ==
    last.op = "compute_snapshot" =>
        LET rm == analyzer.routes[1]
            n == Len(rm.latencies)
        IN  /\ AtIndex(rm.latencies, rm.p50_latency, n \div 2)
            /\ IF n >= 20 THEN AtIndex(rm.latencies, rm.p95_latency, (95 * n) \div 100)
               ELSE rm.p95_latency = MaxSample(rm.latencies)
            /\ IF n >= 100 THEN AtIndex(rm.latencies, rm.p99_latency, (99 * n) \div 100)
               ELSE rm.p99_latency = MaxSample(rm.latencies)
            /\ rm.p50_latency <= rm.p95_latency
            /\ rm.p95_latency <= rm.p99_latency
            /\ rm.p99_latency <= MaxSample(rm.latencies)

\* 100 samples, five of them at the top: p95 is a top sample, p50 is not
C36_Witness ==
    /\ last.op = "compute_snapshot"
    /\ Len(analyzer.routes[1].latencies) = 100
    /\ analyzer.routes[1].p50_latency = 1
    /\ analyzer.routes[1].p95_latency = 3
    /\ analyzer.routes[1].p99_latency = 3
    /\ Cardinality({i \in 1..100 : analyzer.routes[1].latencies[i] = 3}) = 5

(***************************************************************************)
(* The life cycle of a template                                            *)
(***************************************************************************)

\* dicts of one structure, of the same key with another type, and of two
\* structures whose fingerprint texts coincide
LifeCycleDicts ==
    {<<<<"k", PyInt(0)>>>>, <<<<"k", PyNone>>>>,
     <<<<"a:int|b", PyInt(0)>>>>, <<<<"b", PyInt(0)>>, <<"a", PyInt(12)>>>>}
LifeCycleRoutes == {RouteId("GET", PathX), RouteId("GET", PathZ)}

NextLifeCycle ==
    \/ \E route_id \in LifeCycleRoutes, data \in LifeCycleDicts : LearnStructureCall(route_id, data)
    \/ \E route_id \in LifeCycleRoutes, data \in LifeCycleDicts : FastEncodeCall(route_id, data)

SpecLifeCycle == Init /\ [][NextLifeCycle]_vars

\* C37: learn_structure on a dict returns False and leaves the route without
\* a template when the fingerprint of the dict differs from the one known
\* for the route; otherwise it returns True and the route's template is the
\* dict's sorted keys; fast_encode returns None when the route has no template.
C37_TemplateLifeCycle ==
    [][/\ last'.op = "learn_structure" =>
            IF last'.ret
            THEN /\ HasRoute(encoder'.templates, last'.key)
                 /\ RouteEntry(encoder'.templates, last'.key).val
                       = SortedKeys(KeysOfDict(last'.data))
            ELSE /\ ~HasRoute(encoder'.templates, last'.key)
                 /\ HasRoute(encoder.fingerprints, last'.key)
       /\ (last'.op = "fast_encode" /\ ~HasRoute(encoder.templates, last'.key))
             => last'.ret = None]_vars

(***************************************************************************)
(* The middleware in the adopted order                                     *)
(***************************************************************************)

\* a fast middleware, a slow one that short-circuits, and a slow one that
\* does not
LateRuns == {<<"A", 1, FALSE>>, <<"B", 20, TRUE>>, <<"C", 20, FALSE>>}

NextLateMiddleware ==
    \/ Tick
    \/ \E run \in LateRuns :
          RecordMiddlewareUpTo(MaxMiddlewareCalls + 1, run[1], run[2], run[3])
    \/ RunOptimizationCycleCall

SpecLateMiddleware == Init /\ [][NextLateMiddleware]_vars

\* C38: after an optimization cycle run with two or more middleware tracked
\* the adopted order holds every tracked middleware exactly once and nothing
\* else, a middleware first seen after the initial order included.
C38_OrderCoversTracked ==
    (/\ last.op = "run_optimization_cycle" /\ last.info = "cycle"
     /\ Len(analyzer.middleware) >= 2)
    => /\ Len(optimizer.optimal_mw_order) = Len(analyzer.middleware)
       /\ {optimizer.optimal_mw_order[i] : i \in 1..Len(optimizer.optimal_mw_order)}
             = {analyzer.middleware[i].name : i \in 1..Len(analyzer.middleware)}

(***************************************************************************)
(* The frame of disable_memoization                                        *)
(***************************************************************************)

\* a route whose id begins with the id of the route /x
PathXY == <<"/", "x", "y">>
GetXY == RouteId("GET", PathXY)
FrameRoutes == {<<GetX, PathX>>, <<GetXY, PathXY>>, <<GetZ, PathZ>>}

NextDisable ==
    \/ Tick
    \/ \E rt \in FrameRoutes, ttl \in {NoTtl, 1} : EnableMemoization(rt[1], ttl)
    \/ \E rt \in FrameRoutes : DisableMemoization(rt[1])
    \/ \E rt \in FrameRoutes :
          StoreResponseCall(rt[1], "GET", rt[2], QueryEmpty, ResponseData("b1", 200))

SpecDisable == Init /\ [][NextDisable]_vars

\* the entries of the cache stored for a route
EntriesOf(c, route_id) == SelectSeq(c, LAMBDA e : e.args[1] = route_id)

\* C39: disable_memoization(r) removes r from the memoized routes together
\* with its TTL override and its cached entries, and leaves the memoization
\* status, TTL override and cached entries of every other route as they were.
C39_DisableFrame ==
    [][last'.op = "disable_memoization" =>
        LET r == last'.args[1] IN
        /\ r \notin memoized_routes'
        /\ r \notin DOMAIN route_ttls'
        /\ EntriesOf(cache', r) = <<>>
        /\ memoized_routes' \ {r} = memoized_routes \ {r}
        /\ \A rt \in FrameRoutes :
              rt[1] # r =>
                 /\ EntriesOf(cache', rt[1]) = EntriesOf(cache, rt[1])
                 /\ (rt[1] \in DOMAIN route_ttls' <=> rt[1] \in DOMAIN route_ttls)
                 /\ rt[1] \in DOMAIN route_ttls => route_ttls'[rt[1]] = route_ttls[rt[1]]]_vars

(***************************************************************************)
(* Cycles and refreshes per interval                                       *)
(***************************************************************************)

\* C40: whatever the interleaving of the threads that call maybe_optimize
\* and maybe_refresh, at most one optimization cycle has been started per
\* optimize_interval elapsed and at most one history point has been stored
\* per snapshot_interval elapsed.
C40_OnePerInterval ==
    /\ optimizer.optimization_count * OptimizeInterval <= now
    /\ Len(analyzer.history) * SnapshotInterval <= now

====
